---- MODULE Spec2Model ----
(***************************************************************************)
(* SmartHireAI: resume screening.  The model covers the matching core      *)
(* (src/job_matcher.py), the ranking of a batch of candidates and the      *)
(* screening loop of the two Streamlit applications (src/app.py,           *)
(* src/app_enhanced.py).                                                   *)
(*                                                                         *)
(* Texts are TLA+ strings, so `keyword in text` is a real substring test   *)
(* and the regular expressions are matched character by character.         *)
(* Python floats are modelled as exact rationals <<n, d>> in lowest terms. *)
(* A value of type Optional[str] is a sequence of length at most one:      *)
(* None is <<>> and the string s is <<s>>.                                 *)
(***************************************************************************)
EXTENDS Integers, Sequences, FiniteSets, TLC

\* ------------------------------------------------------------------------
\* Bounds of the model
\* ------------------------------------------------------------------------

\* a job description is the concatenation of at most MaxJobPieces pieces
MaxJobPieces == 2
\* a resume text is the concatenation of at most MaxResumePieces pieces
MaxResumePieces == 2
\* a batch handed to rank_resumes holds at most MaxBatch candidates
MaxBatch == 3
\* a screening run uploads at most MaxFiles documents
MaxFiles == 3
\* a document handed to the parser has at most MaxParts pages or paragraphs
MaxParts == 2
\* a text handed to extract_information is the concatenation of at most
\* MaxExtractPieces pieces
MaxExtractPieces == 2
\* the field extractor is called at most MaxCalls times on one text
MaxCalls == 2

\* ------------------------------------------------------------------------
\* State
\* ------------------------------------------------------------------------

VARIABLES
    job_description,  \* the job description handed to the matcher
    resume_text,      \* the resume text handed to the matcher
    op,               \* the matcher operation called last ("none" before any)
    embedding,        \* what the embedding call(s) of that operation did
    result,           \* the result of that operation
    resumes,          \* the batch of candidates handed to rank_resumes
    order,            \* rank_resumes: the input position of each ranked entry
    enhanced,         \* the screening run is one of app_enhanced.py (else app.py)
    uploaded_files,   \* the documents handed over by the file uploader
    pc,               \* where the "Start Screening Process" handler stands
    file_index,       \* the loop's position in uploaded_files (from 1)
    results,          \* the handler's list `results`
    messages,         \* the st.error / st.warning messages shown, in order
    temp_files,       \* the directory temp/: path -> content written
    analyses,         \* the rows of the table resume_analyses
    runs,             \* simultaneous screening runs: where each one stands
    process,          \* the interpreter: its hash seed, its spaCy pipeline
    extractor_calls,  \* the calls of the field extractor made so far
    logged_in,        \* st.session_state.logged_in of a browser session
    user,             \* st.session_state.user of that session
    page,             \* the page main() has rendered: login_page or main_app
    args,             \* the inputs of the login form or call handled last
    users             \* the rows of the table users, in the order of their ids

matcher_vars == <<resume_text, op, embedding, result, resumes, order>>

screening_vars ==
    <<enhanced, uploaded_files, pc, file_index, results, messages, temp_files,
      analyses, runs>>

extractor_vars == <<process, extractor_calls>>

auth_vars == <<logged_in, user, page, args, users>>

vars ==
    <<job_description, matcher_vars, screening_vars, extractor_vars, auth_vars>>

\* ------------------------------------------------------------------------
\* Optional values
\* ------------------------------------------------------------------------

None == <<>>
Str(s) == <<s>>
IsStr(v) == Len(v) = 1
Val(v) == v[1]

\* ------------------------------------------------------------------------
\* Rational arithmetic (Python floats)
\* ------------------------------------------------------------------------

RECURSIVE GCD(_, _)
GCD(a, b) == IF b = 0 THEN a ELSE GCD(b, a % b)

Abs(n) == IF n < 0 THEN -n ELSE n

\* the rational n/d (d > 0) in lowest terms
Rat(n, d) == LET g == GCD(Abs(n), d) IN <<n \div g, d \div g>>

Zero == Rat(0, 1)
One == Rat(1, 1)
Half == Rat(1, 2)

RAdd(p, q) == Rat(p[1] * q[2] + q[1] * p[2], p[2] * q[2])
RMul(p, q) == Rat(p[1] * q[1], p[2] * q[2])
RLt(p, q) == p[1] * q[2] < q[1] * p[2]
RLe(p, q) == p[1] * q[2] <= q[1] * p[2]
InUnit(p) == RLe(Zero, p) /\ RLe(p, One)

\* ------------------------------------------------------------------------
\* Strings
\* ------------------------------------------------------------------------

UpperChars == "ABCDEFGHIJKLMNOPQRSTUVWXYZ"
LowerChars == "abcdefghijklmnopqrstuvwxyz"
DigitChars == "0123456789"

CharAt(s, i) == SubSeq(s, i, i)
CharsOf(s) == {CharAt(s, i) : i \in 1..Len(s)}

\* str.lower() of one character
LowerMap == [c \in CharsOf(UpperChars) |->
                CharAt(LowerChars, CHOOSE j \in 1..Len(UpperChars) : CharAt(UpperChars, j) = c)]
LowerChar(c) == IF c \in DOMAIN LowerMap THEN LowerMap[c] ELSE c

\* str.lower(): every upper-case letter replaced by its lower-case one, the
\* other characters kept (the recursion goes from one upper-case letter to the
\* next)
RECURSIVE lower(_)
lower(s) ==
    LET ups == {i \in 1..Len(s) : CharAt(s, i) \in DOMAIN LowerMap}
    IN IF ups = {} THEN s
       ELSE LET i == CHOOSE j \in ups : \A k \in ups : j <= k
            IN SubSeq(s, 1, i - 1) \o LowerChar(CharAt(s, i))
                   \o lower(SubSeq(s, i + 1, Len(s)))

\* the occurrence test of `sub in s` at position i
OccursAt(sub, s, i) ==
    /\ i >= 1
    /\ i + Len(sub) - 1 <= Len(s)
    /\ SubSeq(s, i, i + Len(sub) - 1) = sub

\* Python's `sub in s`
Contains(sub, s) == \E i \in 1..(Len(s) - Len(sub) + 1) : OccursAt(sub, s, i)

\* \w of the re module, on the characters the texts are made of
WordChars == CharsOf(LowerChars) \cup CharsOf(UpperChars) \cup CharsOf(DigitChars) \cup {"_"}
IsWordChar(c) == c \in WordChars

\* \b of the re module at the gap before position i (1 <= i <= Len(s) + 1)
IsWordBoundary(s, i) ==
    LET before == i > 1 /\ IsWordChar(CharAt(s, i - 1))
        after == i <= Len(s) /\ IsWordChar(CharAt(s, i))
    IN before # after

\* re.findall of \b(?:alt1|alt2|...)\b: the alternative matched at position p
\* is the first one, in the order written, that occurs at p between two word
\* boundaries (the engine backtracks into the next alternative when the
\* closing \b fails); 0 when none does
MatchAt(alts, s, p) ==
    IF ~IsWordBoundary(s, p) THEN 0
    ELSE LET hits == {k \in 1..Len(alts) :
                         /\ OccursAt(alts[k], s, p)
                         /\ IsWordBoundary(s, p + Len(alts[k]))}
         IN IF hits = {} THEN 0
            ELSE CHOOSE k \in hits : \A j \in hits : k <= j

\* re.findall scans left to right and resumes after the end of each match:
\* from position p it reports the first position of `at` (the positions where
\* the pattern matches) that is not before p, and goes on behind that match
RECURSIVE ScanFrom(_, _, _, _)
ScanFrom(alts, s, at, p) ==
    LET ahead == {q \in at : q >= p}
    IN IF ahead = {} THEN <<>>
       ELSE LET q == CHOOSE r \in ahead : \A r2 \in ahead : r <= r2
                k == MatchAt(alts, s, q)
            IN <<alts[k]>> \o ScanFrom(alts, s, at, q + Len(alts[k]))

FindAllFrom(alts, s, p) ==
    ScanFrom(alts, s, {q \in p..Len(s) : MatchAt(alts, s, q) # 0}, p)

Range(f) == {f[i] : i \in DOMAIN f}

\* ------------------------------------------------------------------------
\* Regular expressions with quantifiers.  A pattern is a sequence of tokens:
\*   [kind |-> "lit", str]        the literal str
\*   [kind |-> "many", set, min]  at least min characters of set (\d+, \s*)
\*   [kind |-> "b"]               a word boundary (\b)
\*   [kind |-> "opt", sub]        the pattern sub or nothing ((?:...)?)
\*   [kind |-> "alt", subs]       one of the patterns subs ((?:a|b))
\* ------------------------------------------------------------------------

\* \s and \d of the re module, on the characters the texts are made of
Spaces == {" ", "\t", "\n", "\r", "\f"}
Digits == CharsOf(DigitChars)

\* the positions behind a match of the pattern toks that begins at one of the
\* positions P of s
RECURSIVE Ends(_, _, _)
Ends(toks, s, P) ==
    IF Len(toks) = 0 \/ P = {} THEN P
    ELSE LET t == Head(toks)
             behind ==
                 CASE t.kind = "lit" ->
                        {p + Len(t.str) : p \in {q \in P : OccursAt(t.str, s, q)}}
                   [] t.kind = "many" ->
                        UNION {{e \in (p + t.min)..(Len(s) + 1) :
                                   \A k \in p..(e - 1) : CharAt(s, k) \in t.set} :
                               p \in P}
                   [] t.kind = "b" -> {p \in P : IsWordBoundary(s, p)}
                   [] t.kind = "opt" -> P \cup Ends(t.sub, s, P)
                   [] t.kind = "alt" ->
                        UNION {Ends(t.subs[k], s, P) : k \in 1..Len(t.subs)}
         IN Ends(Tail(toks), s, behind)

\* the matches of pre(\d+)post that begin at p: <<q, e>> when the digits
\* s[q..e-1] are what the group captures
CapturesAt(pat, s, p) ==
    UNION {{<<q, e>> : e \in {x \in (q + 1)..(Len(s) + 1) :
                                /\ \A k \in q..(x - 1) : CharAt(s, k) \in Digits
                                /\ Ends(pat.post, s, {x}) # {}}} :
           q \in Ends(pat.pre, s, {p})}

\* re.findall(pattern, s)[0] for a pattern pre(\d+)post: the group of the
\* leftmost match, \d+ taking as many digits as the rest allows; None when
\* findall returns the empty list
first_capture(pat, s) ==
    LET starts == {p \in 1..Len(s) : CapturesAt(pat, s, p) # {}}
    IN IF starts = {} THEN None
       ELSE LET p0 == CHOOSE p \in starts : \A r \in starts : p <= r
                c == CHOOSE c \in CapturesAt(pat, s, p0) :
                         \A d \in CapturesAt(pat, s, p0) : d[2] <= c[2]
            IN Str(SubSeq(s, c[1], c[2] - 1))

\* int(digits)
RECURSIVE int(_)
int(digits) ==
    IF digits = "" THEN 0
    ELSE 10 * int(SubSeq(digits, 1, Len(digits) - 1))
         + (CHOOSE v \in 0..9 :
                CharAt(DigitChars, v + 1) = CharAt(digits, Len(digits)))

Lit(str) == [kind |-> "lit", str |-> str]
\* a\s*b (min = 0) and a\s+b (min = 1)
Gap(a, min, b) == <<Lit(a), [kind |-> "many", set |-> Spaces, min |-> min], Lit(b)>>
\* a\.?b
Dot(a, b) == <<Lit(a), [kind |-> "opt", sub |-> <<Lit(".")>>], Lit(b)>>
\* the alternatives a|b|... of literal strings
Lits(strs) == [k \in 1..Len(strs) |-> <<Lit(strs[k])>>]

\* the position behind the match of (?:alt1|alt2|...) at p: that of the first
\* alternative, in the order written, that matches there (the quantifiers of
\* the patterns modelled are greedy and what follows them cannot begin inside
\* what they take, so an alternative matches up to its last possible end);
\* 0 when none matches
MatchEnd(alts, s, p) ==
    LET hits == {k \in 1..Len(alts) : Ends(alts[k], s, {p}) # {}}
    IN IF hits = {} THEN 0
       ELSE LET k == CHOOSE j \in hits : \A i \in hits : j <= i
                ends == Ends(alts[k], s, {p})
            IN CHOOSE e \in ends : \A d \in ends : d <= e

\* re.findall(pattern, s) for a pattern without group: the matched strings,
\* scanning from p to the right and going on behind each match (`at` holds
\* the positions where the pattern matches)
RECURSIVE FindFrom(_, _, _, _)
FindFrom(alts, s, at, p) ==
    LET ahead == {q \in at : q >= p}
    IN IF ahead = {} THEN <<>>
       ELSE LET q == CHOOSE r \in ahead : \A r2 \in ahead : r <= r2
                e == MatchEnd(alts, s, q)
            IN <<SubSeq(s, q, e - 1)>> \o FindFrom(alts, s, at, e)

findall(alts, s, p) ==
    FindFrom(alts, s, {q \in p..Len(s) : MatchEnd(alts, s, q) > q}, p)

\* \b(?:alt1|alt2|...)\b
Bounded(alts) ==
    [k \in 1..Len(alts) |-> <<[kind |-> "b"]>> \o alts[k] \o <<[kind |-> "b"]>>]

\* str.split(sep) for a separator of one character
RECURSIVE split(_, _)
split(s, sep) ==
    LET at == {k \in 1..Len(s) : CharAt(s, k) = sep}
    IN IF at = {} THEN <<s>>
       ELSE LET k == CHOOSE j \in at : \A i \in at : j <= i
            IN <<SubSeq(s, 1, k - 1)>> \o split(SubSeq(s, k + 1, Len(s)), sep)

\* ------------------------------------------------------------------------
\* JobMatcher: keyword tables
\* ------------------------------------------------------------------------

skill_keywords ==
    << "python", "java", "javascript", "react", "angular", "vue", "node.js",
       "django", "flask", "spring", "mysql", "postgresql", "mongodb",
       "aws", "azure", "docker", "kubernetes", "git", "machine learning",
       "data science", "artificial intelligence", "deep learning" >>

experience_keywords ==
    << "experience", "years", "worked", "developed", "managed", "led",
       "created", "designed", "implemented", "built", "maintained" >>

education_keywords ==
    << "degree", "bachelor", "master", "phd", "university", "college",
       "engineering", "computer science", "information technology" >>

\* the four patterns of _extract_skills_from_text, each as the list of its
\* alternatives in the order written; node\.?js is greedy, so "node.js" is
\* tried before "nodejs"
skill_patterns ==
    << << "python", "java", "javascript", "c++", "c#", "php", "ruby", "go",
          "rust", "swift", "kotlin" >>,
       << "react", "angular", "vue", "node.js", "nodejs", "django", "flask",
          "spring", "laravel" >>,
       << "mysql", "postgresql", "mongodb", "redis", "elasticsearch", "oracle" >>,
       << "aws", "azure", "gcp", "docker", "kubernetes", "jenkins", "git",
          "github" >> >>

\* ------------------------------------------------------------------------
\* JobMatcher: keyword extraction
\* ------------------------------------------------------------------------

_extract_keywords(text, keywords) ==
    {keywords[i] : i \in {j \in 1..Len(keywords) : Contains(keywords[j], text)}}

\* [match.lower() for match in re.findall(pattern, text, re.IGNORECASE)] with a
\* lower-case pattern is the list of matches in the lower-cased text
_extract_skills_from_text(text) ==
    LET low == lower(text)
    IN _extract_keywords(text, skill_keywords)
       \cup UNION {Range(FindAllFrom(skill_patterns[n], low, 1)) : n \in 1..Len(skill_patterns)}

\* ------------------------------------------------------------------------
\* JobMatcher: similarity
\* ------------------------------------------------------------------------

\* Python's min(a, b) and max(a, b): the first argument unless the second is
\* strictly smaller (larger)
PyMin(a, b) == IF RLt(b, a) THEN b ELSE a
PyMax(a, b) == IF RLt(a, b) THEN b ELSE a

ClampIdentity(x) == x
\* max(0.0, min(1.0, similarity_score))
Clamp(x) == PyMax(Zero, PyMin(One, x))

\* The embedding model and cosine_similarity are external: one call either
\* throws (None) or yields a raw cosine <<r>>.  Raw cosines lie in [-1, 1] up
\* to float32 rounding, which can leave a value just above 1.
RawCosines == {Rat(-1, 2), Rat(1, 2), Rat(11, 10)}
EmbedOutcomes == {None} \cup {<<r>> : r \in RawCosines}

\* The result of a call: `value` is what it returned, `raised` tells that an
\* exception left the call instead, `caught` that the call's own except
\* branch produced the value.
Returned(v) == [value |-> v, raised |-> FALSE, caught |-> FALSE]
Caught(v) == [value |-> v, raised |-> FALSE, caught |-> TRUE]
Raised == [value |-> None, raised |-> TRUE, caught |-> FALSE]

SimilarityUncaught(job, resume, embed) ==
    IF ~IsStr(job) \/ ~IsStr(resume) \/ embed = None
    THEN Raised
    ELSE Returned(Clamp(Val(embed)))
\* calculate_similarity: preprocess_text raises AttributeError on a value that
\* is not a string, encode or cosine_similarity may throw; every exception is
\* caught by the except branch, which returns 0.0
calculate_similarity(job, resume, embed) ==
    IF ~IsStr(job) \/ ~IsStr(resume) \/ embed = None
    THEN Caught(Zero)
    ELSE Returned(Clamp(Val(embed)))

SkillsOverJobOnly(job, resume) ==
    LET job_skills == _extract_skills_from_text(lower(job))
        resume_skills == _extract_skills_from_text(lower(resume))
    IN IF job_skills = {} THEN Zero
       ELSE Rat(Cardinality(job_skills \cap resume_skills), Cardinality(job_skills))
_calculate_skills_similarity(job, resume) ==
    LET job_skills == _extract_skills_from_text(lower(job))
        resume_skills == _extract_skills_from_text(lower(resume))
        intersection == Cardinality(job_skills \cap resume_skills)
        union == Cardinality(job_skills \cup resume_skills)
    IN IF job_skills = {} THEN Zero
       ELSE IF union = 0 THEN Zero
       ELSE Rat(intersection, union)

ExperienceOverResume(job, resume) ==
    LET job_exp_keywords == _extract_keywords(lower(job), experience_keywords)
        resume_exp_keywords == _extract_keywords(lower(resume), experience_keywords)
    IN IF job_exp_keywords = {} \/ resume_exp_keywords = {} THEN Zero
       ELSE Rat(Cardinality(job_exp_keywords \cap resume_exp_keywords),
                Cardinality(resume_exp_keywords))
_calculate_experience_similarity(job, resume) ==
    LET job_exp_keywords == _extract_keywords(lower(job), experience_keywords)
        resume_exp_keywords == _extract_keywords(lower(resume), experience_keywords)
    IN IF job_exp_keywords = {} THEN Zero
       ELSE Rat(Cardinality(job_exp_keywords \cap resume_exp_keywords),
                Cardinality(job_exp_keywords))

EducationZeroWhenNone(job, resume) ==
    LET job_edu_keywords == _extract_keywords(lower(job), education_keywords)
        resume_edu_keywords == _extract_keywords(lower(resume), education_keywords)
    IN IF job_edu_keywords = {} THEN Zero
       ELSE Rat(Cardinality(job_edu_keywords \cap resume_edu_keywords),
                Cardinality(job_edu_keywords))
_calculate_education_similarity(job, resume) ==
    LET job_edu_keywords == _extract_keywords(lower(job), education_keywords)
        resume_edu_keywords == _extract_keywords(lower(resume), education_keywords)
    IN IF job_edu_keywords = {} THEN Half
       ELSE Rat(Cardinality(job_edu_keywords \cap resume_edu_keywords),
                Cardinality(job_edu_keywords))

\* the weights dictionary of calculate_weighted_similarity
weights == [overall |-> Rat(4, 10), skills |-> Rat(3, 10),
            experience |-> Rat(2, 10), education |-> Rat(1, 10)]

WeightedSwapped(overall, skills, experience, education) ==
    RAdd(RAdd(RAdd(RMul(overall, weights.skills), RMul(skills, weights.overall)),
              RMul(experience, weights.experience)),
         RMul(education, weights.education))
\* the weighted average of calculate_weighted_similarity
weighted_score(overall, skills, experience, education) ==
    RAdd(RAdd(RAdd(RMul(overall, weights.overall), RMul(skills, weights.skills)),
              RMul(experience, weights.experience)),
         RMul(education, weights.education))

Scores(o, s, x, d, w) ==
    [overall_similarity |-> o, skills_similarity |-> s,
     experience_similarity |-> x, education_similarity |-> d,
     weighted_score |-> w]

\* the dictionary returned by the except branch
ZeroScores == Scores(Zero, Zero, Zero, Zero, Zero)

WeightedUncaught(job, resume, embed) ==
    LET overall == calculate_similarity(job, resume, embed)
    IN IF overall.raised \/ ~IsStr(job) \/ ~IsStr(resume)
       THEN Raised
       ELSE LET skills_similarity == _calculate_skills_similarity(Val(job), Val(resume))
                experience_similarity == _calculate_experience_similarity(Val(job), Val(resume))
                education_similarity == _calculate_education_similarity(Val(job), Val(resume))
            IN Returned(Scores(overall.value, skills_similarity,
                               experience_similarity, education_similarity,
                               weighted_score(overall.value, skills_similarity,
                                              experience_similarity, education_similarity)))
\* calculate_weighted_similarity.  The three keyword similarities call .lower()
\* on both arguments and so raise AttributeError exactly when one of them is
\* not a string; that, or an exception leaving calculate_similarity, is caught
\* by the except branch, which returns the all-zero dictionary.
calculate_weighted_similarity(job, resume, embed) ==
    LET overall == calculate_similarity(job, resume, embed)
    IN IF overall.raised \/ ~IsStr(job) \/ ~IsStr(resume)
       THEN Caught(ZeroScores)
       ELSE LET skills_similarity == _calculate_skills_similarity(Val(job), Val(resume))
                experience_similarity == _calculate_experience_similarity(Val(job), Val(resume))
                education_similarity == _calculate_education_similarity(Val(job), Val(resume))
            IN Returned(Scores(overall.value, skills_similarity,
                               experience_similarity, education_similarity,
                               weighted_score(overall.value, skills_similarity,
                                              experience_similarity, education_similarity)))

\* ------------------------------------------------------------------------
\* JobMatcher: ranking
\* ------------------------------------------------------------------------

\* The position at which list.sort(key, reverse=True) places the element with
\* key `key` among the already placed `placed` (keys in non-increasing order):
\* behind every element whose key is greater or equal, so that elements with
\* equal keys keep the order in which they came (the sort is stable).
InsertBeforeEqual(key, placed) ==
    Cardinality({j \in 1..Len(placed) : RLt(key, placed[j])})
InsertAscending(key, placed) ==
    Cardinality({j \in 1..Len(placed) : RLe(placed[j], key)})
InsertPosition(key, placed) ==
    Cardinality({j \in 1..Len(placed) : RLe(key, placed[j])})

\* list.sort(key=..., reverse=True) as the permutation it applies: the result
\* lists the positions 1..n of `keys` in their sorted order
RECURSIVE SortOrder(_, _)
SortOrder(keys, n) ==
    IF n = 0 THEN <<>>
    ELSE LET prev == SortOrder(keys, n - 1)
             pos == InsertPosition(keys[n], [j \in 1..(n - 1) |-> keys[prev[j]]])
         IN SubSeq(prev, 1, pos) \o <<n>> \o SubSeq(prev, pos + 1, n - 1)

\* the two matcher calls rank_resumes makes for one candidate
ScoreResume(job, resume, e1, e2) ==
    [embed |-> e1,
     similarity |-> calculate_similarity(job, resume.text, e1),
     weighted |-> calculate_weighted_similarity(job, resume.text, e2)]

\* an exception leaving either call leaves rank_resumes, which catches nothing
RankRaises(calls) ==
    \E i \in 1..Len(calls) : calls[i].similarity.raised \/ calls[i].weighted.raised

RankedOfFirst(batch, calls) ==
    [i \in 1..Len(batch) |->
        [filename |-> batch[i].filename,
         similarity_score |-> calls[i].similarity.value,
         weighted_scores |-> calls[i].weighted.value,
         text |-> batch[1].text]]
\* ranked_resumes as appended by the loop, before the sort
RankedUnsorted(batch, calls) ==
    [i \in 1..Len(batch) |->
        [filename |-> batch[i].filename,
         similarity_score |-> calls[i].similarity.value,
         weighted_scores |-> calls[i].weighted.value,
         text |-> batch[i].text]]

RankOrder(batch, calls) ==
    IF RankRaises(calls) THEN <<>>
    ELSE SortOrder([i \in 1..Len(batch) |-> calls[i].similarity.value], Len(batch))

rank_resumes(batch, calls) ==
    IF RankRaises(calls) THEN Raised
    ELSE LET ranked_resumes == RankedUnsorted(batch, calls)
             by == RankOrder(batch, calls)
         IN Returned([k \in 1..Len(batch) |-> ranked_resumes[by[k]]])

\* ------------------------------------------------------------------------
\* Inputs of the matcher
\* ------------------------------------------------------------------------

RECURSIVE Concat(_)
Concat(q) == IF q = <<>> THEN "" ELSE Head(q) \o Concat(Tail(q))

SeqsUpTo(S, n) == UNION {[1..k -> S] : k \in 0..n}

JobPieces ==
    {"Python and JavaScript. ", "3+ years experience. ", "Bachelor degree, Node.js "}

ResumePieces ==
    {"python developer, ", "Worked 5 years. PhD degree. ", "skilled in GitHub "}

JobTexts == {Concat(q) : q \in SeqsUpTo(JobPieces, MaxJobPieces)}
ResumeTexts == {Concat(q) : q \in SeqsUpTo(ResumePieces, MaxResumePieces)}

\* no screening run: the state of the applications outside of one
ScreeningIdle ==
    /\ enhanced = FALSE
    /\ uploaded_files = <<>>
    /\ pc = "idle"
    /\ file_index = 1
    /\ results = <<>>
    /\ messages = <<>>
    /\ temp_files = {}
    /\ analyses = <<>>
    /\ runs = <<>>

\* no call of the field extractor
ExtractorIdle ==
    /\ process = [hash_seed |-> "a", nlp |-> FALSE]
    /\ extractor_calls = <<>>

\* a browser session that has just opened on an empty table users: main()
\* sets logged_in to False and renders the login page
AuthIdle ==
    /\ logged_in = FALSE
    /\ user = None
    /\ page = "login_page"
    /\ args = [username |-> "", email |-> "", password |-> ""]
    /\ users = <<>>

\* ------------------------------------------------------------------------
\* The matcher called on one job description and one resume text.  The
\* matcher keeps no state between calls, so a behaviour is one call: a second
\* call would reach no state that a first call on the same inputs does not.
\* ------------------------------------------------------------------------

InitMatcher ==
    /\ job_description \in {Str(t) : t \in JobTexts} \cup {None}
    /\ resume_text \in {Str(t) : t \in ResumeTexts} \cup {None}
    /\ op = "none"
    /\ embedding = None
    /\ result = Returned(None)
    /\ resumes = <<>>
    /\ order = <<>>
    /\ ScreeningIdle
    /\ ExtractorIdle
    /\ AuthIdle

CalculateSimilarity ==
    \E e \in EmbedOutcomes :
        /\ op = "none"
        /\ op' = "calculate_similarity"
        /\ embedding' = e
        /\ result' = calculate_similarity(job_description, resume_text, e)
        /\ UNCHANGED <<job_description, resume_text, resumes, order>>
        /\ UNCHANGED <<screening_vars, extractor_vars, auth_vars>>

CalculateWeightedSimilarity ==
    \E e \in EmbedOutcomes :
        /\ op = "none"
        /\ op' = "calculate_weighted_similarity"
        /\ embedding' = e
        /\ result' = calculate_weighted_similarity(job_description, resume_text, e)
        /\ UNCHANGED <<job_description, resume_text, resumes, order>>
        /\ UNCHANGED <<screening_vars, extractor_vars, auth_vars>>

NextMatcher ==
    \/ CalculateSimilarity
    \/ CalculateWeightedSimilarity

SpecMatcher == InitMatcher /\ [][NextMatcher]_vars

\* ------------------------------------------------------------------------
\* rank_resumes called on one job description and one batch of candidates
\* ------------------------------------------------------------------------

RankJob == "Python and JavaScript. "

\* the candidates a batch is drawn from (a batch may repeat one); the third
\* has no text, as when the caller passes on what parse_resume returned
RankCandidates ==
    {[filename |-> "a.pdf", text |-> Str("python developer, ")],
     [filename |-> "b.docx", text |-> Str("skilled in GitHub ")],
     [filename |-> "c.docx", text |-> None]}

\* what the embedding call inside calculate_weighted_similarity does while
\* ranking: it fails or yields one fixed cosine
RankInnerOutcomes == {None, <<Rat(1, 2)>>}

\* every way the matcher calls of one rank_resumes run can go: one pair of
\* calls for each candidate from position i on
RECURSIVE CallChoices(_, _, _)
CallChoices(job, batch, i) ==
    IF i > Len(batch) THEN {<<>>}
    ELSE LET heads == {ScoreResume(job, batch[i], e1, e2) :
                           e1 \in EmbedOutcomes, e2 \in RankInnerOutcomes}
             tails == CallChoices(job, batch, i + 1)
         IN {<<h>> \o t : h \in heads, t \in tails}

InitRank ==
    /\ job_description = Str(RankJob)
    /\ resume_text = None
    /\ op = "none"
    /\ embedding = None
    /\ result = Returned(None)
    /\ resumes \in SeqsUpTo(RankCandidates, MaxBatch)
    /\ order = <<>>
    /\ ScreeningIdle
    /\ ExtractorIdle
    /\ AuthIdle

RankResumesInPlace ==
    /\ op = "none"
    /\ \E calls \in CallChoices(job_description, resumes, 1) :
           /\ op' = "rank_resumes"
           /\ embedding' = [i \in 1..Len(resumes) |-> calls[i].embed]
           /\ result' = rank_resumes(resumes, calls)
           /\ order' = RankOrder(resumes, calls)
           /\ resumes' = [k \in 1..Len(order') |-> resumes[order'[k]]]
           /\ UNCHANGED <<job_description, resume_text>>
           /\ UNCHANGED <<screening_vars, extractor_vars, auth_vars>>
\* rank_resumes on the batch: it reads the caller's list and its entries and
\* assigns to neither
RankResumes ==
    /\ op = "none"
    /\ \E calls \in CallChoices(job_description, resumes, 1) :
           /\ op' = "rank_resumes"
           /\ embedding' = [i \in 1..Len(resumes) |-> calls[i].embed]
           /\ result' = rank_resumes(resumes, calls)
           /\ order' = RankOrder(resumes, calls)
           /\ UNCHANGED <<job_description, resume_text, resumes>>
           /\ UNCHANGED <<screening_vars, extractor_vars, auth_vars>>

NextRank == RankResumes

SpecRank == InitRank /\ [][NextRank]_vars

\* ------------------------------------------------------------------------
\* ResumeParser: years of experience
\* ------------------------------------------------------------------------

\* \s*(?:\+)?\s*
PlusBetween ==
    << [kind |-> "many", set |-> Spaces, min |-> 0],
       [kind |-> "opt", sub |-> << [kind |-> "lit", str |-> "+"] >>],
       [kind |-> "many", set |-> Spaces, min |-> 0] >>
\* \s+(?:of\s+)?
OfBetween ==
    << [kind |-> "many", set |-> Spaces, min |-> 1],
       [kind |-> "opt", sub |-> << [kind |-> "lit", str |-> "of"],
                                   [kind |-> "many", set |-> Spaces, min |-> 1] >>] >>
\* (?:exp|experience)
ExpOrExperience ==
    << [kind |-> "alt", subs |-> << << [kind |-> "lit", str |-> "exp"] >>,
                                    << [kind |-> "lit", str |-> "experience"] >> >>] >>
\* years? and yrs?
Years(stem) ==
    << [kind |-> "lit", str |-> stem],
       [kind |-> "opt", sub |-> << [kind |-> "lit", str |-> "s"] >>] >>

\* the four patterns of _extract_years_of_experience, in their order, each
\* split at its group (\d+)
exp_patterns ==
    << [pre |-> <<>>,
        post |-> PlusBetween \o Years("year") \o OfBetween
                     \o << [kind |-> "lit", str |-> "experience"] >>],
       [pre |-> << [kind |-> "lit", str |-> "experience"] >> \o OfBetween,
        post |-> PlusBetween \o Years("year")],
       [pre |-> <<>>,
        post |-> PlusBetween \o Years("yr") \o OfBetween \o ExpOrExperience],
       [pre |-> ExpOrExperience \o OfBetween,
        post |-> PlusBetween \o Years("yr")] >>

\* _extract_years_of_experience: the group of the first match of the first
\* pattern, in the listed order, that matches; None when none matches (int
\* of a run of digits raises no ValueError).  re.IGNORECASE adds nothing on
\* the lower-cased text the method is called with.
YearsOfLastPattern(text) ==
    LET found == {k \in 1..Len(exp_patterns) :
                     first_capture(exp_patterns[k], text) # None}
    IN IF found = {} THEN None
       ELSE LET k == CHOOSE j \in found : \A i \in found : j >= i
            IN <<int(Val(first_capture(exp_patterns[k], text)))>>
_extract_years_of_experience(text) ==
    LET found == {k \in 1..Len(exp_patterns) :
                     first_capture(exp_patterns[k], text) # None}
    IN IF found = {} THEN None
       ELSE LET k == CHOOSE j \in found : \A i \in found : j <= i
            IN <<int(Val(first_capture(exp_patterns[k], text)))>>

\* ------------------------------------------------------------------------
\* utils.save_uploaded_file and ResumeParser.parse_resume
\* ------------------------------------------------------------------------

\* the greatest position of the character c in s, 0 when there is none
RECURSIVE LastIndexOf(_, _, _)
LastIndexOf(c, s, at) ==
    IF at = 0 THEN 0
    ELSE IF CharAt(s, at) = c THEN at
    ELSE LastIndexOf(c, s, at - 1)

\* os.path.splitext(path)[1]: from the last dot of the base name on; dots that
\* lead the base name start no extension
splitext(path) ==
    LET base == LastIndexOf("/", path, Len(path)) + 1
        dot == LastIndexOf(".", path, Len(path))
    IN IF dot < base \/ \A k \in base..(dot - 1) : CharAt(path, k) = "."
       THEN ""
       ELSE SubSeq(path, dot, Len(path))

\* os.path.join("temp", name): an absolute name replaces the directory
join_temp(name) ==
    IF Len(name) > 0 /\ CharAt(name, 1) = "/" THEN name ELSE "temp/" \o name

\* str.strip(): the ASCII whitespace that has an escape in a TLA+ string
Whitespace == Spaces
strip(s) ==
    LET keep == {k \in 1..Len(s) : CharAt(s, k) \notin Whitespace}
    IN IF keep = {} THEN ""
       ELSE SubSeq(s, CHOOSE k \in keep : \A m \in keep : k <= m,
                      CHOOSE k \in keep : \A m \in keep : m <= k)

\* what the environment does to the open()/write() of save_uploaded_file
SaveOutcomes == {"ok", "raise"}

\* save_uploaded_file: writes the buffer to temp/<name>, replacing a file of
\* that path; an exception is reported with st.error and raised again
save_uploaded_file(temp, file, outcome) ==
    LET file_path == join_temp(file.name)
    IN IF outcome = "raise"
       THEN [temp_files |-> temp, path |-> None, raised |-> TRUE,
             messages |-> <<[kind |-> "error", text |-> "Error saving file",
                             filename |-> file.name]>>]
       ELSE [temp_files |-> {f \in temp : f.path # file_path}
                              \cup {[path |-> file_path, content |-> file]},
             path |-> Str(file_path), raised |-> FALSE, messages |-> <<>>]

\* resume_parser.py imports the module as `fitz` (line 1) and binds no name
\* PyMuPDF, so evaluating PyMuPDF.open raises NameError
PyMuPDF_bound == FALSE

\* _parse_pdf: the pages' texts concatenated and stripped; every exception
\* of the body is raised again as Exception
_parse_pdf(content) ==
    IF ~PyMuPDF_bound \/ ~content.valid THEN Raised
    ELSE Returned(strip(Concat(content.pages)))

\* _parse_docx: every paragraph followed by a newline, then every cell of
\* every table followed by a space and every row by a newline, stripped
_parse_docx(content) ==
    LET RowText(row) == Concat([k \in 1..Len(row) |-> row[k] \o " "]) \o "\n"
        TableText(t) == Concat([k \in 1..Len(t) |-> RowText(t[k])])
        paragraphs == Concat([k \in 1..Len(content.paragraphs) |->
                                 content.paragraphs[k] \o "\n"])
        tables == Concat([k \in 1..Len(content.tables) |->
                             TableText(content.tables[k])])
    IN IF ~content.valid THEN Raised
       ELSE Returned(strip(paragraphs \o tables))

\* the try block of parse_resume on the content found at file_path: it
\* dispatches on the lowered extension; an unsupported extension raises
\* ValueError
parse_dispatch(file_path, content) ==
    LET file_extension == lower(splitext(file_path))
    IN IF file_extension = ".pdf" THEN _parse_pdf(content)
       ELSE IF file_extension = ".docx" THEN _parse_docx(content)
       ELSE Raised

\* parse_resume on the content found at file_path: every exception of the
\* try block is caught and None returned
ParseUncaught(file_path, content) ==
    LET parsed == parse_dispatch(file_path, content)
    IN IF parsed.raised THEN Raised ELSE Returned(Str(parsed.value))
parse_content(file_path, content) ==
    LET parsed == parse_dispatch(file_path, content)
    IN IF parsed.raised THEN Caught(None) ELSE Returned(Str(parsed.value))

\* the documents an upload is drawn from (the uploader admits pdf and docx):
\* a DOCX with a paragraph and a table, a PDF of two pages, a DOCX of blank
\* paragraphs and a file named .docx that is no DOCX archive
UploadPool ==
    {[name |-> "a.docx", valid |-> TRUE, pages |-> <<>>,
      paragraphs |-> <<"python developer, ">>,
      tables |-> << << <<"skilled in", "GitHub">> >> >>],
     [name |-> "b.PDF", valid |-> TRUE,
      pages |-> <<"Worked 5 years. ", "PhD degree. ">>,
      paragraphs |-> <<>>, tables |-> <<>>],
     [name |-> "c.docx", valid |-> TRUE, pages |-> <<>>,
      paragraphs |-> <<"", " ">>, tables |-> <<>>],
     [name |-> "d.docx", valid |-> FALSE, pages |-> <<>>,
      paragraphs |-> <<>>, tables |-> <<>>]}

\* the texts of a page and of a paragraph, and the tables of a document
PageTexts == {"Worked 5 years. ", "PhD degree. ", " "}
ParagraphTexts == {"python developer, ", ""}
DocumentTables == {<<>>, << << <<"skilled in", "GitHub">> >> >>}

\* the files parse_resume is called on: PDF files of up to MaxParts pages,
\* DOCX files of up to MaxParts paragraphs and files of another or of no
\* extension; `valid` tells that the bytes are a well-formed document of the
\* format the extension names
ParserDocuments ==
    [name : {"R.PDF", "r.pdf"}, valid : BOOLEAN,
     pages : SeqsUpTo(PageTexts, MaxParts), paragraphs : {<<>>}, tables : {<<>>}]
    \cup [name : {"s.docx"}, valid : BOOLEAN, pages : {<<>>},
          paragraphs : SeqsUpTo(ParagraphTexts, MaxParts),
          tables : DocumentTables]
    \cup [name : {"e.txt", "resume", ".pdf"}, valid : BOOLEAN,
          pages : SeqsUpTo(PageTexts, 1), paragraphs : {<<>>}, tables : {<<>>}]

Documents == UploadPool \cup ParserDocuments

\* parse_content on every document, each saved under its name (computed
\* once)
ParsedPool ==
    {[path |-> join_temp(name),
      parsed |-> {[content |-> f, result |-> parse_content(join_temp(name), f)] :
                     f \in {d \in Documents : d.name = name}}] :
        name \in {d.name : d \in Documents}}

\* the call parse_resume(file_path): reads the file and parses what it finds
parse_call(temp, file_path) ==
    LET content == (CHOOSE f \in temp : f.path = file_path).content
        at_path == (CHOOSE r \in ParsedPool : r.path = file_path).parsed
    IN (CHOOSE r \in at_path : r.content = content).result

\* what parse_resume returns
parse_resume(temp, file_path) == parse_call(temp, file_path).value

\* the truth value Python gives an Optional[str]
Truthy(v) == IsStr(v) /\ Val(v) # ""

\* ------------------------------------------------------------------------
\* ResumeParser: extract_information
\* ------------------------------------------------------------------------

\* the six patterns of ResumeParser.skill_patterns, each \b(?:...)\b
parser_skill_patterns ==
    << Lits(<<"python", "java", "javascript", "c++", "c#", "php", "ruby", "go",
              "rust", "swift", "kotlin", "scala", "r", "matlab">>),
       Lits(<<"html", "css", "react", "angular", "vue">>)
           \o <<Dot("node", "js")>>
           \o Lits(<<"express", "django", "flask", "spring", "laravel">>),
       Lits(<<"mysql", "postgresql", "mongodb", "redis", "elasticsearch",
              "oracle">>)
           \o <<Gap("sql", 0, "server")>> \o Lits(<<"sqlite">>),
       Lits(<<"aws", "azure", "gcp", "docker", "kubernetes", "jenkins", "git",
              "github", "gitlab", "terraform">>),
       Lits(<<"pandas", "numpy", "scikit-learn", "tensorflow", "pytorch",
              "keras", "spark", "hadoop", "tableau">>)
           \o <<Gap("power", 0, "bi")>>,
       Lits(<<"linux", "windows", "macos", "agile", "scrum", "jira",
              "confluence", "slack">>)
           \o <<Gap("microsoft", 0, "office")>> >>

parser_education_keywords ==
    << "bachelor", "master", "phd", "doctorate", "degree", "diploma",
       "certificate", "b.tech", "b.e", "m.tech", "m.e", "mba", "mca", "bca",
       "b.sc", "m.sc", "engineering", "computer science",
       "information technology", "software", "university", "college",
       "institute", "school" >>

parser_experience_keywords ==
    << "experience", "worked", "developed", "managed", "led", "created",
       "designed", "implemented", "built", "maintained", "optimized",
       "collaborated", "achieved", "years", "months", "intern", "internship",
       "trainee", "junior", "senior", "lead", "manager", "developer",
       "engineer", "analyst", "consultant" >>

\* the patterns of _extract_education: x\.?y|long form, and b\.?e\.?, m\.?e\.?
degree_patterns ==
    LET dot == <<[kind |-> "opt", sub |-> <<Lit(".")>>]>>
    IN << <<Dot("b", "tech")>> \o Lits(<<"bachelor of technology">>),
          <<Dot("m", "tech")>> \o Lits(<<"master of technology">>),
          <<Dot("b", "e") \o dot>> \o Lits(<<"bachelor of engineering">>),
          <<Dot("m", "e") \o dot>> \o Lits(<<"master of engineering">>),
          Lits(<<"mba", "master of business administration">>),
          Lits(<<"mca", "master of computer applications">>),
          Lits(<<"bca", "bachelor of computer applications">>),
          <<Dot("b", "sc")>> \o Lits(<<"bachelor of science">>),
          <<Dot("m", "sc")>> \o Lits(<<"master of science">>),
          Lits(<<"phd", "doctorate">>) >>

\* the patterns of _extract_experience: (?:a|b|...)\s+(?:c|d|...)
job_patterns ==
    LET Pair(firsts, seconds) ==
            << << [kind |-> "alt", subs |-> firsts],
                  [kind |-> "many", set |-> Spaces, min |-> 1],
                  [kind |-> "alt", subs |-> seconds] >> >>
    IN << Pair(Lits(<<"software", "web", "mobile", "data", "ml", "ai">>),
               Lits(<<"engineer", "developer", "analyst", "scientist">>)),
          Pair(Lits(<<"senior", "junior", "lead", "principal">>),
               Lits(<<"engineer", "developer", "analyst">>)),
          Pair(Lits(<<"project", "product", "technical">>),
               Lits(<<"manager", "lead">>)),
          Pair(<<Gap("full", 0, "stack"), Gap("front", 0, "end"),
                 Gap("back", 0, "end")>>, Lits(<<"developer">>)),
          Pair(Lits(<<"data", "business", "system">>), Lits(<<"analyst">>)) >>

\* every match of every pattern of a list
AllMatches(patterns, text) ==
    UNION {Range(findall(patterns[n], text, 1)) : n \in 1..Len(patterns)}

\* the named entities the spaCy pipeline finds: the model is external, this
\* one recognises the names of a fixed list wherever they occur
NamedEntities ==
    {[text |-> "acme corp", label |-> "ORG"],
     [text |-> "excel", label |-> "PRODUCT"],
     [text |-> "london", label |-> "GPE"]}
ents(text) == {e \in NamedEntities : Contains(e.text, text)}

\* the order in which a set of strings is iterated depends on the hash seed
\* the interpreter drew at its start: two of the orders it can have
RECURSIVE Enumerate(_)
Enumerate(S) ==
    IF S = {} THEN <<>>
    ELSE LET x == CHOOSE y \in S : TRUE IN <<x>> \o Enumerate(S \ {x})
HashSeeds == {"a", "b"}
HashOrder(seed, S) ==
    LET q == Enumerate(S)
    IN IF seed = "a" THEN q ELSE [k \in 1..Len(q) |-> q[Len(q) + 1 - k]]

TakeAll(seed, candidates, cap) == HashOrder(seed, candidates)
\* list(set(candidates))[:cap]
Take(seed, candidates, cap) ==
    LET q == HashOrder(seed, candidates)
    IN SubSeq(q, 1, IF Len(q) < cap THEN Len(q) ELSE cap)

\* str.isalpha() on the characters the texts are made of
isalpha(str) ==
    /\ str # ""
    /\ \A k \in 1..Len(str) :
           CharAt(str, k) \in CharsOf(LowerChars) \cup CharsOf(UpperChars)

\* _extract_skills: the matches of the patterns and, when the pipeline is
\* loaded, the ORG and PRODUCT entities; stripped and filtered; at most 20
_extract_skills(proc, text) ==
    LET skills == AllMatches([n \in 1..Len(parser_skill_patterns) |->
                                 Bounded(parser_skill_patterns[n])], text)
                  \cup IF proc.nlp
                       THEN {lower(e.text) :
                                e \in {x \in ents(text) :
                                          x.label \in {"ORG", "PRODUCT"}}}
                       ELSE {}
        cleaned_skills ==
            {strip(skill) : skill \in
                {x \in skills :
                    \/ Len(strip(x)) > 1 /\ isalpha(strip(x))
                    \/ Contains(".", strip(x))
                    \/ Contains("+", strip(x))
                    \/ Contains("#", strip(x))}}
    IN Take(proc.hash_seed, cleaned_skills, 20)

SentencesAtLeast(text, keywords, longer) ==
    {strip(x) : x \in
        {y \in Range(split(text, ".")) :
            /\ \E k \in 1..Len(keywords) : Contains(keywords[k], y)
            /\ Len(strip(y)) >= longer}}
\* the stripped sentences of text.split('.') that contain one of the keywords
\* and are longer than `longer` characters
Sentences(text, keywords, longer) ==
    {strip(x) : x \in
        {y \in Range(split(text, ".")) :
            /\ \E k \in 1..Len(keywords) : Contains(keywords[k], y)
            /\ Len(strip(y)) > longer}}

\* _extract_education: at most 10 of the sentences and the degree names
_extract_education(proc, text) ==
    Take(proc.hash_seed,
         Sentences(text, parser_education_keywords, -1)
             \cup AllMatches(degree_patterns, text), 10)

\* _extract_experience: at most 15 of the sentences of more than 10
\* characters and the job titles
_extract_experience(proc, text) ==
    Take(proc.hash_seed,
         Sentences(text, parser_experience_keywords, 10)
             \cup AllMatches(job_patterns, text), 15)

\* re.findall(phone_pattern, text) compiles the phone pattern, in which `?`
\* follows the anchor `$`: re.compile raises re.error("nothing to repeat")
phone_pattern_compiles == FALSE

\* _extract_contact_info: the e-mail address is looked up, then the phone
\* pattern is compiled, which raises; the statements behind it are not run
_extract_contact_info(text) ==
    IF phone_pattern_compiles THEN Returned(<<>>) ELSE Raised

\* extract_information in the interpreter proc: the three lists, then the
\* contact information, whose exception leaves the function
extract_information(proc, text) ==
    LET resume_text_lower == lower(text)
        contact == _extract_contact_info(text)
    IN IF contact.raised THEN Raised
       ELSE Returned(
              [skills |-> _extract_skills(proc, resume_text_lower),
               education |-> _extract_education(proc, resume_text_lower),
               experience |-> _extract_experience(proc, resume_text_lower),
               contact |-> contact.value,
               years_of_experience |->
                   _extract_years_of_experience(resume_text_lower)])

\* ------------------------------------------------------------------------
\* The functions of the field extractor called on one resume text, several
\* times and by several interpreters: the application is restarted between
\* two calls.  The helper functions get the lower-cased text, as
\* extract_information hands it to them.
\* ------------------------------------------------------------------------

ExtractPieces ==
    << "B.Tech M.Tech B.E M.E MBA MCA BCA B.Sc M.Sc PhD. ",
       "Exp of 3 yrs, uses Excel, R and Node.js. Led a team. ",
       "5 years of experience as Senior Developer at Acme Corp. ",
       "python java php ruby go rust swift kotlin scala matlab html css react angular vue express django flask spring laravel mysql redis r c# ",
       "software engineer web developer mobile developer ml engineer ai scientist senior engineer junior developer lead analyst project manager technical lead full stack developer frontend developer backend developer business analyst system analyst data scientist " >>

\* the pieces whose index is in I and at least k, in their order
RECURSIVE PiecesFrom(_, _)
PiecesFrom(k, I) ==
    IF k > Len(ExtractPieces) THEN ""
    ELSE (IF k \in I THEN ExtractPieces[k] ELSE "") \o PiecesFrom(k + 1, I)

ExtractTexts ==
    {PiecesFrom(1, I) : I \in {J \in SUBSET (1..Len(ExtractPieces)) :
                                  Cardinality(J) <= MaxExtractPieces}}

Processes == [hash_seed : HashSeeds, nlp : BOOLEAN]

ExtractorFunctions ==
    {"_extract_skills", "_extract_education", "_extract_experience",
     "_extract_contact_info", "_extract_years_of_experience",
     "extract_information"}

InitExtract ==
    /\ job_description = None
    /\ resume_text \in {Str(t) : t \in ExtractTexts}
    /\ op = "none"
    /\ embedding = None
    /\ result = Returned(None)
    /\ resumes = <<>>
    /\ order = <<>>
    /\ ScreeningIdle
    /\ process \in Processes
    /\ extractor_calls = <<>>
    /\ AuthIdle

\* fn can be called once more; a behaviour is a series of calls of one
\* function
CanCall(fn) ==
    /\ Len(extractor_calls) < MaxCalls
    /\ \A i \in 1..Len(extractor_calls) : extractor_calls[i].fn = fn

\* the call of fn is over
Called(fn, outcome) ==
    /\ op' = fn
    /\ extractor_calls' = Append(extractor_calls, [fn |-> fn, outcome |-> outcome])
    /\ UNCHANGED <<job_description, resume_text, embedding, result, resumes,
                   order, screening_vars, process, auth_vars>>

ExtractSkills ==
    /\ CanCall("_extract_skills")
    /\ Called("_extract_skills",
              Returned(_extract_skills(process, lower(Val(resume_text)))))

ExtractEducation ==
    /\ CanCall("_extract_education")
    /\ Called("_extract_education",
              Returned(_extract_education(process, lower(Val(resume_text)))))

ExtractExperience ==
    /\ CanCall("_extract_experience")
    /\ Called("_extract_experience",
              Returned(_extract_experience(process, lower(Val(resume_text)))))

ExtractContactInfo ==
    /\ CanCall("_extract_contact_info")
    /\ Called("_extract_contact_info", _extract_contact_info(Val(resume_text)))

ExtractYearsOfExperience ==
    /\ CanCall("_extract_years_of_experience")
    /\ Called("_extract_years_of_experience",
              Returned(_extract_years_of_experience(lower(Val(resume_text)))))

ExtractInformation ==
    /\ CanCall("extract_information")
    /\ Called("extract_information",
              extract_information(process, Val(resume_text)))

\* the application is started again: the new interpreter draws its hash seed
RestartProcess ==
    /\ \E seed \in HashSeeds : process' = [process EXCEPT !.hash_seed = seed]
    /\ UNCHANGED <<job_description, matcher_vars, screening_vars,
                   extractor_calls, auth_vars>>

NextExtract ==
    \/ ExtractSkills
    \/ ExtractEducation
    \/ ExtractExperience
    \/ ExtractContactInfo
    \/ ExtractYearsOfExperience
    \/ ExtractInformation
    \/ RestartProcess

SpecExtract == InitExtract /\ [][NextExtract]_vars

\* ------------------------------------------------------------------------
\* JobMatcher: analysis of a job description, explanation of a match
\* ------------------------------------------------------------------------

\* preprocess_text: text.lower(); re.sub(r'\s+', ' ', text);
\* re.sub(r'[^\w\s\.\+\#\-]', ' ', text), which puts a space where a special
\* character was; text.replace(old, new) for the table; text.strip()
preprocess_text(text) ==
    LET kept == "+#-."
        replacements ==
            << <<"c++", "cpp">>, <<"c#", "csharp">>, <<".net", "dotnet">>,
               <<"node.js", "nodejs">>, <<"react.js", "react">>,
               <<"vue.js", "vue">> >>
        RECURSIVE collapse(_, _)
        collapse(str, i) ==
            IF i > Len(str) THEN ""
            ELSE IF CharAt(str, i) \notin Whitespace
            THEN CharAt(str, i) \o collapse(str, i + 1)
            ELSE IF i > 1 /\ CharAt(str, i - 1) \in Whitespace
            THEN collapse(str, i + 1)
            ELSE " " \o collapse(str, i + 1)
        RECURSIVE special(_, _)
        special(str, i) ==
            IF i > Len(str) THEN ""
            ELSE (IF \/ IsWordChar(CharAt(str, i))
                     \/ CharAt(str, i) \in Whitespace \cup CharsOf(kept)
                  THEN CharAt(str, i) ELSE " ")
                 \o special(str, i + 1)
        RECURSIVE replace(_, _, _, _)
        replace(str, old, new, i) ==
            IF i > Len(str) THEN ""
            ELSE IF OccursAt(old, str, i)
            THEN new \o replace(str, old, new, i + Len(old))
            ELSE CharAt(str, i) \o replace(str, old, new, i + 1)
        RECURSIVE normalise(_, _)
        normalise(str, n) ==
            IF n > Len(replacements) THEN str
            ELSE normalise(replace(str, replacements[n][1],
                                   replacements[n][2], 1), n + 1)
    IN strip(normalise(special(collapse(lower(text), 1), 1), 1))

\* len(text.split())
word_count(text) ==
    Cardinality({p \in 1..Len(text) :
                    /\ CharAt(text, p) \notin Whitespace
                    /\ p = 1 \/ CharAt(text, p - 1) \in Whitespace})

\* extract_key_phrases: nothing without the spaCy pipeline; with it, the short
\* noun chunks and the ORG, PRODUCT and SKILL entities the pipeline finds (of
\* this model's pipeline: its entities), lower-cased, each once
extract_key_phrases(proc, text) ==
    IF ~proc.nlp THEN <<>>
    ELSE HashOrder(proc.hash_seed,
                   {lower(e.text) :
                       e \in {x \in ents(lower(text)) :
                                 x.label \in {"ORG", "PRODUCT", "SKILL"}}})

\* exp_pattern of analyze_job_description, split at its group (\d+)
job_exp_pattern == exp_patterns[1]

\* int(exp_matches[0]) if exp_matches else None; re.IGNORECASE with the
\* lower-case pattern matches what the pattern matches in the lower-cased text
RequiredYearsOfSecondPattern(text) ==
    LET exp_matches == first_capture(exp_patterns[2], lower(text))
    IN IF exp_matches = None THEN None ELSE <<int(Val(exp_matches))>>
required_experience_years(text) ==
    LET exp_matches == first_capture(job_exp_pattern, lower(text))
    IN IF exp_matches = None THEN None ELSE <<int(Val(exp_matches))>>

\* analyze_job_description: job_description.split() raises AttributeError on a
\* value that is not a string
analyze_job_description(proc, job) ==
    IF ~IsStr(job) THEN Raised
    ELSE LET text == Val(job)
         IN Returned(
              [word_count |-> word_count(text),
               character_count |-> Len(text),
               skills |-> HashOrder(proc.hash_seed,
                                    _extract_skills_from_text(lower(text))),
               experience |-> HashOrder(proc.hash_seed,
                                        _extract_keywords(lower(text),
                                                          experience_keywords)),
               education |-> HashOrder(proc.hash_seed,
                                       _extract_keywords(lower(text),
                                                         education_keywords)),
               required_experience_years |-> required_experience_years(text),
               key_phrases |-> extract_key_phrases(proc, text)])

\* ', '.join(strs)
RECURSIVE join(_, _)
join(sep, strs) ==
    IF strs = <<>> THEN ""
    ELSE IF Len(strs) = 1 THEN strs[1]
    ELSE strs[1] \o sep \o join(sep, Tail(strs))

RecommendationsAtMostHalf(proc, missing_skills, scores) ==
    (IF missing_skills # {}
     THEN <<"Consider highlighting these skills: "
              \o join(", ", Take(proc.hash_seed, missing_skills, 5))>>
     ELSE <<>>)
    \o (IF RLt(scores.experience_similarity, Half)
        THEN <<"Emphasize relevant work experience and achievements">>
        ELSE <<>>)
    \o (IF RLe(scores.education_similarity, Half)
        THEN <<"Highlight relevant educational background and certifications">>
        ELSE <<>>)
    \o (IF RLt(scores.overall_similarity, Rat(3, 5))
        THEN <<"Consider tailoring the resume to better match the job requirements">>
        ELSE <<>>)
\* _generate_recommendations
_generate_recommendations(proc, missing_skills, scores) ==
    (IF missing_skills # {}
     THEN <<"Consider highlighting these skills: "
              \o join(", ", Take(proc.hash_seed, missing_skills, 5))>>
     ELSE <<>>)
    \o (IF RLt(scores.experience_similarity, Half)
        THEN <<"Emphasize relevant work experience and achievements">>
        ELSE <<>>)
    \o (IF RLt(scores.education_similarity, Half)
        THEN <<"Highlight relevant educational background and certifications">>
        ELSE <<>>)
    \o (IF RLt(scores.overall_similarity, Rat(3, 5))
        THEN <<"Consider tailoring the resume to better match the job requirements">>
        ELSE <<>>)

\* missing_skills = job_skills - resume_skills
MissingFromResume(job_skills, resume_skills) == resume_skills \ job_skills
missing_of(job_skills, resume_skills) == job_skills \ resume_skills

\* get_matching_explanation: analyze_job_description and the two .lower()
\* calls raise on a value that is not a string; calculate_weighted_similarity
\* catches its exceptions
get_matching_explanation(proc, job, resume, embed) ==
    IF analyze_job_description(proc, job).raised \/ ~IsStr(resume) THEN Raised
    ELSE LET job_skills == _extract_skills_from_text(lower(Val(job)))
             resume_skills == _extract_skills_from_text(lower(Val(resume)))
             matching_skills == job_skills \cap resume_skills
             missing_skills == missing_of(job_skills, resume_skills)
             similarity_scores ==
                 calculate_weighted_similarity(job, resume, embed).value
         IN Returned(
              [overall_score |-> similarity_scores.weighted_score,
               matching_skills |-> HashOrder(proc.hash_seed, matching_skills),
               missing_skills |-> HashOrder(proc.hash_seed, missing_skills),
               skill_match_percentage |->
                   IF job_skills # {}
                   THEN Rat(Cardinality(matching_skills), Cardinality(job_skills))
                   ELSE Zero,
               detailed_scores |-> similarity_scores,
               recommendations |->
                   _generate_recommendations(proc, missing_skills,
                                             similarity_scores)])

\* job descriptions: the pieces of the matcher's inputs, and some that name
\* years of experience in several ways
ExplainJobs ==
    JobPieces \cup
    {"Senior Developer with 3+ years experience in Python and React.",
     "1 Year of Experience in Java, or 10+ years experience.",
     "Experience of 7 years, then 2 years  of\texperience; Docker",
     "12 years experienced, 4years experience",
     "years of experience"}

InitExplain ==
    /\ job_description \in {Str(t) : t \in ExplainJobs} \cup {None}
    /\ resume_text \in {Str(t) : t \in ResumeTexts} \cup {None}
    /\ op = "none"
    /\ embedding = None
    /\ result = Returned(None)
    /\ resumes = <<>>
    /\ order = <<>>
    /\ ScreeningIdle
    /\ process \in Processes
    /\ extractor_calls = <<>>
    /\ AuthIdle

AnalyzeJobDescription ==
    /\ op = "none"
    /\ op' = "analyze_job_description"
    /\ result' = analyze_job_description(process, job_description)
    /\ UNCHANGED <<job_description, resume_text, embedding, resumes, order,
                   screening_vars, extractor_vars, auth_vars>>

GetMatchingExplanation ==
    \E e \in EmbedOutcomes :
        /\ op = "none"
        /\ op' = "get_matching_explanation"
        /\ embedding' = e
        /\ result' = get_matching_explanation(process, job_description,
                                              resume_text, e)
        /\ UNCHANGED <<job_description, resume_text, resumes, order,
                       screening_vars, extractor_vars, auth_vars>>

\* preprocess_text on the job description; .lower() raises AttributeError on
\* a value that is not a string
PreprocessText ==
    /\ op = "none"
    /\ op' = "preprocess_text"
    /\ result' = IF IsStr(job_description)
                 THEN Returned(preprocess_text(Val(job_description)))
                 ELSE Raised
    /\ UNCHANGED <<job_description, resume_text, embedding, resumes, order,
                   screening_vars, extractor_vars, auth_vars>>

\* _calculate_skills_similarity on two texts
CalculateSkillsSimilarity ==
    /\ op = "none"
    /\ IsStr(job_description) /\ IsStr(resume_text)
    /\ op' = "_calculate_skills_similarity"
    /\ result' = Returned(_calculate_skills_similarity(Val(job_description),
                                                       Val(resume_text)))
    /\ UNCHANGED <<job_description, resume_text, embedding, resumes, order,
                   screening_vars, extractor_vars, auth_vars>>

\* and once more, the job description and the resume swapped
CalculateSkillsSimilaritySwapped ==
    /\ op = "_calculate_skills_similarity"
    /\ op' = "_calculate_skills_similarity, swapped"
    /\ job_description' = resume_text
    /\ resume_text' = job_description
    /\ result' = Returned(_calculate_skills_similarity(Val(resume_text),
                                                       Val(job_description)))
    /\ UNCHANGED <<embedding, resumes, order, screening_vars, extractor_vars,
                   auth_vars>>

NextExplain ==
    \/ AnalyzeJobDescription
    \/ GetMatchingExplanation
    \/ PreprocessText
    \/ CalculateSkillsSimilarity
    \/ CalculateSkillsSimilaritySwapped

SpecExplain == InitExplain /\ [][NextExplain]_vars

\* ------------------------------------------------------------------------
\* parse_resume called on one file.  The parser keeps no state between
\* calls, so a behaviour is one call.
\* ------------------------------------------------------------------------

InitParser ==
    /\ job_description = None
    /\ resume_text = None
    /\ op = "none"
    /\ embedding = None
    /\ result = Returned(None)
    /\ resumes = <<>>
    /\ order = <<>>
    /\ enhanced = FALSE
    /\ uploaded_files = <<>>
    /\ pc = "idle"
    /\ file_index = 1
    /\ results = <<>>
    /\ messages = <<>>
    /\ temp_files \in {{[path |-> join_temp(f.name), content |-> f]} :
                          f \in Documents}
    /\ analyses = <<>>
    /\ runs = <<>>
    /\ ExtractorIdle
    /\ AuthIdle

ParseResume ==
    /\ op = "none"
    /\ \E f \in temp_files :
           /\ op' = "parse_resume"
           /\ result' = parse_call(temp_files, f.path)
           /\ resume_text' = parse_resume(temp_files, f.path)
    /\ UNCHANGED <<job_description, embedding, resumes, order, screening_vars,
                   extractor_vars, auth_vars>>

NextParser == ParseResume

SpecParser == InitParser /\ [][NextParser]_vars

\* ------------------------------------------------------------------------
\* The "Start Screening Process" handler of app.py and app_enhanced.py
\* ------------------------------------------------------------------------

\* extract_information raises on its way through _extract_contact_info (and
\* could raise before, in the spaCy pipeline, on a text beyond nlp.max_length)
ExtractOutcomes == IF phone_pattern_compiles THEN {"ok", "raise"} ELSE {"raise"}

\* save_resume_analysis: the row is committed; or the commit fails, is rolled
\* back and None returned; or get_session / rollback raise out of the call
DbOutcomes == {"saved", "failed", "raise"}

\* what the environment does during one loop iteration
FileOutcomes ==
    [save : SaveOutcomes, extract : ExtractOutcomes, embed : EmbedOutcomes,
     db : DbOutcomes]

\* resume_text[:500] + "..." if len(resume_text) > 500 else resume_text
preview(text) ==
    IF Len(text) > 500 THEN SubSeq(text, 1, 500) \o "..." ELSE text

\* what one loop iteration leaves behind
Iteration(temp, entries, rows, shown, exc) ==
    [temp_files |-> temp, entries |-> entries, rows |-> rows,
     messages |-> shown, raised |-> exc]

\* the try block of one loop iteration: save, parse, extract, score and (in
\* app_enhanced.py) store the analysis, then append the entry to results
screen_file_try(job, file, temp, is_enhanced, env) ==
    LET saved == save_uploaded_file(temp, file, env.save)
        text == parse_resume(saved.temp_files, Val(saved.path))
        score == calculate_similarity(job, text, env.embed)
        entry == [filename |-> file.name,
                  similarity_score |-> score.value,
                  resume_text |-> preview(Val(text))]
        row == [filename |-> file.name, similarity_score |-> score.value]
    IN IF saved.raised
       THEN Iteration(saved.temp_files, <<>>, <<>>, saved.messages, TRUE)
       ELSE IF ~Truthy(text)
       THEN Iteration(saved.temp_files, <<>>, <<>>,
                      <<[kind |-> "warning", text |-> "Could not extract text",
                         filename |-> file.name]>>, FALSE)
       ELSE IF env.extract = "raise" \/ score.raised
       THEN Iteration(saved.temp_files, <<>>, <<>>, <<>>, TRUE)
       ELSE IF is_enhanced /\ env.db = "raise"
       THEN Iteration(saved.temp_files, <<>>, <<>>, <<>>, TRUE)
       ELSE Iteration(saved.temp_files, <<entry>>,
                      IF is_enhanced /\ env.db = "saved" THEN <<row>> ELSE <<>>,
                      <<>>, FALSE)

\* one loop iteration: the try block with its `except Exception` clause,
\* which reports the exception with st.error and lets the loop go on
ScreenFileSilent(job, file, temp, is_enhanced, env) ==
    LET body == screen_file_try(job, file, temp, is_enhanced, env)
    IN IF body.raised THEN [body EXCEPT !.raised = FALSE] ELSE body
ScreenFileUncaught(job, file, temp, is_enhanced, env) ==
    screen_file_try(job, file, temp, is_enhanced, env)
screen_file(job, file, temp, is_enhanced, env) ==
    LET body == screen_file_try(job, file, temp, is_enhanced, env)
    IN IF body.raised
       THEN [body EXCEPT !.raised = FALSE,
                         !.messages = @ \o <<[kind |-> "error",
                                              text |-> "Error processing",
                                              filename |-> file.name]>>]
       ELSE body

\* results.sort(key=lambda x: x['similarity_score'], reverse=True)
sort_results(entries) ==
    LET by == SortOrder([k \in 1..Len(entries) |-> entries[k].similarity_score],
                        Len(entries))
    IN [k \in 1..Len(entries) |-> entries[by[k]]]

\* the job description typed into the text area: left empty or filled in
ScreeningJobs == {"", RankJob}

\* how app_enhanced.py gets its job posting: one was selected, or
\* create_job_posting is called and returns the posting or None
PostingOutcomes == {"selected", "created", "failed"}
\* create_screening_session returns the session or None
SessionOutcomes == {"created", "failed"}

Shown(kind, text) == [kind |-> kind, text |-> text, filename |-> ""]

InitScreening ==
    /\ job_description \in {Str(t) : t \in ScreeningJobs}
    /\ resume_text = None
    /\ op = "none"
    /\ embedding = None
    /\ result = Returned(None)
    /\ resumes = <<>>
    /\ order = <<>>
    /\ enhanced \in BOOLEAN
    /\ uploaded_files \in SeqsUpTo(UploadPool, MaxFiles)
    /\ pc = "idle"
    /\ file_index = 1
    /\ results = <<>>
    /\ messages = <<>>
    /\ temp_files = {}
    /\ analyses = <<>>
    /\ runs = <<>>
    /\ ExtractorIdle
    /\ AuthIdle

\* the handler up to the loop: it returns on a missing job description or an
\* empty upload; app_enhanced.py then needs a job posting (temp_job.id raises
\* AttributeError out of the handler when none was created) and a screening
\* session (it returns when none was created)
StartScreening ==
    /\ pc = "idle"
    /\ \E posting \in PostingOutcomes, session \in SessionOutcomes :
           /\ IF Val(job_description) = ""
              THEN /\ pc' = "returned"
                   /\ messages' = Append(messages,
                          Shown("error", "Please enter a job description first!"))
              ELSE IF uploaded_files = <<>>
              THEN /\ pc' = "returned"
                   /\ messages' = Append(messages,
                          Shown("error", "Please upload at least one resume!"))
              ELSE IF enhanced /\ posting = "failed"
              THEN /\ pc' = "crashed"
                   /\ UNCHANGED messages
              ELSE IF enhanced /\ session = "failed"
              THEN /\ pc' = "returned"
                   /\ messages' = Append(messages,
                          Shown("error", "Failed to create screening session!"))
              ELSE /\ pc' = "processing"
                   /\ UNCHANGED messages
    /\ file_index' = 1
    /\ results' = <<>>
    /\ UNCHANGED <<job_description, matcher_vars, enhanced, uploaded_files,
                   temp_files, analyses, runs, extractor_vars, auth_vars>>

\* one iteration of the loop over uploaded_files; an exception that leaves
\* the iteration leaves the handler
ProcessFile ==
    /\ pc = "processing"
    /\ file_index <= Len(uploaded_files)
    /\ \E env \in FileOutcomes :
           \E step \in {screen_file(job_description, uploaded_files[file_index],
                                    temp_files, enhanced, env)} :
               /\ temp_files' = step.temp_files
               /\ results' = results \o step.entries
               /\ analyses' = analyses \o step.rows
               /\ messages' = messages \o step.messages
               /\ pc' = IF step.raised THEN "aborted" ELSE pc
               /\ file_index' = IF step.raised THEN file_index ELSE file_index + 1
    /\ UNCHANGED <<job_description, matcher_vars, enhanced, uploaded_files,
                   runs, extractor_vars, auth_vars>>

\* after the loop: the status text shows "Processing complete!" and a
\* non-empty results list is sorted and kept in the session state
FinishScreening ==
    /\ pc = "processing"
    /\ file_index > Len(uploaded_files)
    /\ pc' = "complete"
    /\ results' = IF results # <<>> THEN sort_results(results) ELSE results
    /\ UNCHANGED <<job_description, matcher_vars, enhanced, uploaded_files,
                   file_index, messages, temp_files, analyses, runs,
                   extractor_vars, auth_vars>>

NextScreening ==
    \/ StartScreening
    \/ ProcessFile
    \/ FinishScreening

\* the script thread runs the handler on until it returns
SpecScreening ==
    InitScreening /\ [][NextScreening]_vars /\ WF_vars(NextScreening)

\* ------------------------------------------------------------------------
\* Two screening runs at a time.  Streamlit runs the script of every browser
\* session in a thread of its own; the threads share the working directory
\* and so the directory temp/.  Each run has one document to process and
\* takes the steps of the loop body: save the upload, parse the saved file.
\* ------------------------------------------------------------------------

Runs == 1..2

\* the documents of the two runs: DOCX files of one name and of different
\* contents, and one of another name
ConcurrentUploads ==
    {d \in UploadPool : d.name = "a.docx"}
    \cup {d \in ParserDocuments :
             d.name = "s.docx" /\ d.valid /\ d.tables = <<>>}

InitConcurrent ==
    /\ job_description = Str(RankJob)
    /\ resume_text = None
    /\ op = "none"
    /\ embedding = None
    /\ result = Returned(None)
    /\ resumes = <<>>
    /\ order = <<>>
    /\ enhanced = FALSE
    /\ uploaded_files = <<>>
    /\ pc = "idle"
    /\ file_index = 1
    /\ results = <<>>
    /\ messages = <<>>
    /\ temp_files = {}
    /\ analyses = <<>>
    /\ runs \in [Runs -> [file : ConcurrentUploads, pc : {"start"},
                          file_path : {None}, read : {None},
                          resume_text : {None}]]
    /\ ExtractorIdle
    /\ AuthIdle

\* file_path = save_uploaded_file(uploaded_file) in the run r
SaveUpload(r) ==
    /\ runs[r].pc = "start"
    /\ \E outcome \in SaveOutcomes :
           LET saved == save_uploaded_file(temp_files, runs[r].file, outcome)
           IN /\ temp_files' = saved.temp_files
              /\ messages' = messages \o saved.messages
              /\ runs' = [runs EXCEPT ![r].file_path = saved.path,
                                      ![r].pc = IF saved.raised THEN "failed"
                                                ELSE "saved"]
    /\ UNCHANGED <<job_description, matcher_vars, enhanced, uploaded_files, pc,
                   file_index, results, analyses, extractor_vars, auth_vars>>

\* resume_text = resume_parser.parse_resume(file_path) in the run r: the
\* parser reads what the file at file_path holds now
ParseUpload(r) ==
    /\ runs[r].pc = "saved"
    /\ runs' = [runs EXCEPT
                  ![r].read = Str((CHOOSE f \in temp_files :
                                      f.path = Val(runs[r].file_path)).content.paragraphs),
                  ![r].resume_text = parse_resume(temp_files,
                                                  Val(runs[r].file_path)),
                  ![r].pc = "parsed"]
    /\ UNCHANGED <<job_description, matcher_vars, enhanced, uploaded_files, pc,
                   file_index, results, messages, temp_files, analyses,
                   extractor_vars, auth_vars>>

NextConcurrent ==
    \E r \in Runs :
        \/ SaveUpload(r)
        \/ ParseUpload(r)

SpecConcurrent == InitConcurrent /\ [][NextConcurrent]_vars

\* ------------------------------------------------------------------------
\* Users and login (database.py, app_enhanced.py): one browser session and
\* the table users.  Every action is one run of the script or one call of the
\* database module; the database may fail under any of them.
\* ------------------------------------------------------------------------

Usernames == {"", "admin", "ann"}
Passwords == {"", "abc", "admin123", "secret1"}
Emails == {"admin@smarthire.ai", "ann@smarthire.ai"}
\* bcrypt.gensalt()
Salts == {"s1", "s2"}
\* a statement on the database succeeds or raises
StatementOutcomes == {"ok", "error"}

\* bcrypt.hashpw(password, salt): the hash carries its salt
hashpw(password, salt) == [salt |-> salt, digest |-> <<salt, password>>]
\* bcrypt.checkpw(password, hashed): the password, hashed with the salt of
\* the stored hash, gives the stored hash
checkpw(password, hashed) == hashpw(password, hashed.salt) = hashed

\* create_user: the insert violates a unique constraint (username, email) or
\* fails otherwise, the except branch rolls back and None is returned; or the
\* row is committed with the next id and returned
create_user(table, username, email, password, role, salt, db) ==
    LET row == [id |-> Len(table) + 1, username |-> username, email |-> email,
                password_hash |-> hashpw(password, salt), role |-> role]
    IN IF \/ db = "error"
          \/ \E k \in 1..Len(table) :
                 table[k].username = username \/ table[k].email = email
       THEN [users |-> table, value |-> None]
       ELSE [users |-> Append(table, row), value |-> <<row>>]

\* session.query(User).filter(User.username == username).first()
get_user_by_username(table, username) ==
    LET found == {k \in 1..Len(table) : table[k].username = username}
    IN IF found = {} THEN None
       ELSE <<table[CHOOSE k \in found : \A j \in found : k <= j]>>

VerifyKnownUser(table, username, password) ==
    get_user_by_username(table, username) # None
\* verify_password
verify_password(table, username, password) ==
    LET found == get_user_by_username(table, username)
    IN IF found # None
       THEN checkpw(password, Val(found).password_hash)
       ELSE FALSE

InitDatabaseAlways(table, salt, tables, insert) ==
    IF tables = "error" THEN [users |-> table, value |-> FALSE]
    ELSE [users |-> create_user(table, "admin", "admin@smarthire.ai",
                                "admin123", "admin", salt, insert).users,
          value |-> TRUE]
\* init_database: create_tables or the count may raise (False is returned);
\* the admin is created when the table has no row, and True is returned
\* whether or not create_user returned a user
init_database(table, salt, tables, insert) ==
    IF tables = "error" THEN [users |-> table, value |-> FALSE]
    ELSE IF Len(table) = 0
    THEN [users |-> create_user(table, "admin", "admin@smarthire.ai",
                                "admin123", "admin", salt, insert).users,
          value |-> TRUE]
    ELSE [users |-> table, value |-> TRUE]

\* main(): the page the script renders
main(is_logged_in) == IF ~is_logged_in THEN "login_page" ELSE "main_app"

InitAuth ==
    /\ job_description = None
    /\ resume_text = None
    /\ op = "none"
    /\ embedding = None
    /\ result = Returned(None)
    /\ resumes = <<>>
    /\ order = <<>>
    /\ ScreeningIdle
    /\ ExtractorIdle
    /\ AuthIdle

\* init_database(), run by the script when a browser session opens and by
\* the setup script
InitDatabase ==
    \E salt \in Salts, tables \in StatementOutcomes, insert \in StatementOutcomes :
        LET done == init_database(users, salt, tables, insert)
        IN /\ op' = "init_database"
           /\ result' = Returned(done.value)
           /\ users' = done.users
           /\ UNCHANGED <<job_description, resume_text, embedding, resumes,
                          order, screening_vars, extractor_vars, logged_in,
                          user, page, args>>

\* db_manager.create_user called with any arguments
CreateUser ==
    \E username \in Usernames \ {""}, email \in Emails,
       password \in Passwords \ {""}, salt \in Salts, db \in StatementOutcomes :
        LET done == create_user(users, username, email, password, "user",
                                salt, db)
        IN /\ op' = "create_user"
           /\ args' = [username |-> username, email |-> email,
                       password |-> password]
           /\ result' = Returned(done.value)
           /\ users' = done.users
           /\ UNCHANGED <<job_description, resume_text, embedding, resumes,
                          order, screening_vars, extractor_vars, logged_in,
                          user, page>>

\* the Login button of the login form: with both fields filled in and the
\* password verified, the session is logged in with the user's record and
\* the script is run again; an exception of the database ends the run
Login ==
    \E username \in Usernames, password \in Passwords, db \in StatementOutcomes :
        LET verified ==
                /\ username # "" /\ password # ""
                /\ db = "ok"
                /\ verify_password(users, username, password)
            found == Val(get_user_by_username(users, username))
        IN /\ page = "login_page"
           /\ op' = "login"
           /\ args' = [username |-> username, email |-> "",
                       password |-> password]
           /\ result' = IF username # "" /\ password # "" /\ db = "error"
                        THEN Raised ELSE Returned(None)
           /\ logged_in' = IF verified THEN TRUE ELSE logged_in
           /\ user' = IF verified
                      THEN <<[id |-> found.id, username |-> found.username,
                              email |-> found.email, role |-> found.role]>>
                      ELSE user
           /\ page' = main(logged_in')
           /\ UNCHANGED <<job_description, resume_text, embedding, resumes,
                          order, screening_vars, extractor_vars, users>>

\* the Register button of the login form: with both fields filled in and a
\* password of at least 6 characters, create_user is called
Register ==
    \E username \in Usernames, password \in Passwords, salt \in Salts,
       db \in StatementOutcomes :
        LET email == username \o "@smarthire.ai"
            done == IF username # "" /\ password # "" /\ Len(password) >= 6
                    THEN create_user(users, username, email, password, "user",
                                     salt, db)
                    ELSE [users |-> users, value |-> None]
        IN /\ page = "login_page"
           /\ op' = "register"
           /\ args' = [username |-> username, email |-> email,
                       password |-> password]
           /\ result' = Returned(done.value)
           /\ users' = done.users
           /\ page' = main(logged_in)
           /\ UNCHANGED <<job_description, resume_text, embedding, resumes,
                          order, screening_vars, extractor_vars, logged_in,
                          user>>

\* the Logout button of the sidebar of the main application
Logout ==
    /\ page = "main_app"
    /\ op' = "logout"
    /\ result' = Returned(None)
    /\ logged_in' = FALSE
    /\ user' = None
    /\ page' = main(logged_in')
    /\ UNCHANGED <<job_description, resume_text, embedding, resumes, order,
                   screening_vars, extractor_vars, args, users>>

NextAuth ==
    \/ InitDatabase
    \/ CreateUser
    \/ Login
    \/ Register
    \/ Logout

SpecAuth == InitAuth /\ [][NextAuth]_vars

\* ------------------------------------------------------------------------
\* Properties of the similarity functions (SpecMatcher)
\* ------------------------------------------------------------------------

WeightedCalled == op = "calculate_weighted_similarity"
\* the call returned from its try block, not from its except branch
WeightedNormal == WeightedCalled /\ ~result.raised /\ ~result.caught

\* the keywords of a table that occur in the lower-cased text
KeywordsIn(text, keywords) == {k \in Range(keywords) : Contains(k, lower(text))}
JobSkills == _extract_skills_from_text(lower(Val(job_description)))
ResumeSkills == _extract_skills_from_text(lower(Val(resume_text)))

\* C1: every field of the result of calculate_weighted_similarity lies in
\* [0, 1], for every job text and resume text, whether the embedding call
\* fails, succeeds, or yields a raw cosine outside [0, 1].
C1_ScoresInUnitInterval ==
    WeightedCalled =>
        /\ ~result.raised
        /\ InUnit(result.value.overall_similarity)
        /\ InUnit(result.value.skills_similarity)
        /\ InUnit(result.value.experience_similarity)
        /\ InUnit(result.value.education_similarity)
        /\ InUnit(result.value.weighted_score)

\* a raw cosine above 1 came back and every keyword signal is positive
C1_Witness ==
    /\ WeightedNormal
    /\ embedding = <<Rat(11, 10)>>
    /\ result.value.overall_similarity = One
    /\ RLt(Zero, result.value.skills_similarity)
    /\ RLt(Zero, result.value.experience_similarity)
    /\ RLt(Zero, result.value.education_similarity)

\* C2: when calculate_weighted_similarity returns from its try block,
\* weighted_score is 0.4*overall + 0.3*skills + 0.2*experience + 0.1*education
\* of the four component values of the same result.
C2_WeightedIsLinearCombination ==
    WeightedNormal =>
        result.value.weighted_score =
            RAdd(RAdd(RMul(Rat(2, 5), result.value.overall_similarity),
                      RMul(Rat(3, 10), result.value.skills_similarity)),
                 RAdd(RMul(Rat(1, 5), result.value.experience_similarity),
                      RMul(Rat(1, 10), result.value.education_similarity)))

\* the four components are pairwise different, so each weight matters
C2_Witness ==
    /\ WeightedNormal
    /\ Cardinality({result.value.overall_similarity, result.value.skills_similarity,
                    result.value.experience_similarity,
                    result.value.education_similarity}) = 4

\* C5: education similarity is exactly 0.5 when the (lower-cased) job text
\* contains no education keyword, whatever the resume; otherwise it is the
\* number of the job's education keywords found in the resume divided by the
\* number of the job's education keywords.
C5_EducationSimilarity ==
    WeightedNormal =>
        LET job_edu == KeywordsIn(Val(job_description), education_keywords)
            resume_edu == KeywordsIn(Val(resume_text), education_keywords)
        IN result.value.education_similarity =
               IF job_edu = {} THEN Half
               ELSE Rat(Cardinality(job_edu \cap resume_edu), Cardinality(job_edu))

\* a job without education keywords met a resume that has some
C5_Witness ==
    /\ WeightedNormal
    /\ KeywordsIn(Val(job_description), education_keywords) = {}
    /\ KeywordsIn(Val(resume_text), education_keywords) # {}
    /\ result.value.education_similarity = Half

\* C6: skills similarity is 0.0 when no skill is extracted from the job text
\* and otherwise the Jaccard index of the two extracted skill sets.
C6_SkillsSimilarityIsJaccard ==
    WeightedNormal =>
        result.value.skills_similarity =
            IF JobSkills = {} THEN Zero
            ELSE Rat(Cardinality(JobSkills \cap ResumeSkills),
                     Cardinality(JobSkills \cup ResumeSkills))

\* the two skill sets overlap and each has a skill the other lacks
C6_Witness ==
    /\ WeightedNormal
    /\ JobSkills \cap ResumeSkills # {}
    /\ JobSkills \ ResumeSkills # {}
    /\ ResumeSkills \ JobSkills # {}
    /\ result.value.skills_similarity =
           Rat(Cardinality(JobSkills \cap ResumeSkills),
               Cardinality(JobSkills \cup ResumeSkills))

\* C7: experience similarity is 0.0 when the job text contains no experience
\* keyword and otherwise the number of the job's experience keywords that
\* occur in the resume divided by the number of the job's experience keywords.
C7_ExperienceSimilarity ==
    WeightedNormal =>
        LET job_exp == KeywordsIn(Val(job_description), experience_keywords)
            resume_exp == KeywordsIn(Val(resume_text), experience_keywords)
        IN result.value.experience_similarity =
               IF job_exp = {} THEN Zero
               ELSE Rat(Cardinality(job_exp \cap resume_exp), Cardinality(job_exp))

\* the resume shares one of the job's experience keywords and has more of its
\* own than the job has
C7_Witness ==
    /\ WeightedNormal
    /\ LET job_exp == KeywordsIn(Val(job_description), experience_keywords)
           resume_exp == KeywordsIn(Val(resume_text), experience_keywords)
       IN /\ job_exp \cap resume_exp # {}
          /\ Cardinality(resume_exp) > Cardinality(job_exp)
          /\ result.value.experience_similarity = Half

RankCalled == op = "rank_resumes"
RankReturned == RankCalled /\ ~result.raised
Ranked == result.value

\* C3: the list rank_resumes returns is ordered by non-increasing
\* similarity_score: each entry's score is at least the next entry's.
C3_RankedNonIncreasing ==
    RankReturned =>
        \A k \in 1..(Len(Ranked) - 1) :
            RLe(Ranked[k + 1].similarity_score, Ranked[k].similarity_score)

\* three candidates that came in increasing order of score are returned in
\* decreasing order
C3_Witness ==
    /\ RankReturned
    /\ Len(Ranked) = 3
    /\ order = <<3, 2, 1>>
    /\ RLt(Ranked[2].similarity_score, Ranked[1].similarity_score)
    /\ RLt(Ranked[3].similarity_score, Ranked[2].similarity_score)

\* C4: ranking is stable: two candidates of one batch with equal
\* similarity_score appear in the output in the order they had in the input
\* (also when both scores are 0.0 because the embedding call failed for both).
C4_RankingStable ==
    RankReturned =>
        /\ Len(order) = Len(resumes)
        /\ \A k \in 1..Len(Ranked) :
               /\ Ranked[k].filename = resumes[order[k]].filename
               /\ Ranked[k].text = resumes[order[k]].text
        /\ \A k, l \in 1..Len(Ranked) :
               (k < l /\ Ranked[k].similarity_score = Ranked[l].similarity_score)
                   => order[k] < order[l]

\* the embedding call failed for the first two candidates, a.pdf then b.docx;
\* the third scored higher and moved to the front, the two keep their order
C4_Witness ==
    /\ RankReturned
    /\ Len(Ranked) = 3
    /\ embedding[1] = None /\ embedding[2] = None
    /\ resumes[1].filename = "a.pdf" /\ resumes[2].filename = "b.docx"
    /\ order = <<3, 1, 2>>
    /\ Ranked[2].filename = "a.pdf" /\ Ranked[2].similarity_score = Zero
    /\ Ranked[3].filename = "b.docx" /\ Ranked[3].similarity_score = Zero

\* C8: when the embedding call, or another step of calculate_similarity,
\* throws for a candidate, calculate_similarity returns 0.0 and nothing
\* propagates: rank_resumes still returns one entry for every candidate of the
\* batch, and that candidate's similarity_score is 0.0.
C8_SimilarityFailureGivesZero ==
    RankCalled =>
        /\ ~result.raised
        /\ Len(Ranked) = Len(resumes)
        /\ \A k \in 1..Len(Ranked) :
               (embedding[order[k]] = None \/ ~IsStr(resumes[order[k]].text))
                   => Ranked[k].similarity_score = Zero

\* the embedding call failed for the first candidate only; the batch is ranked
\* with that candidate last, scored 0.0, behind one with a positive score
C8_Witness ==
    /\ RankReturned
    /\ Len(resumes) >= 2
    /\ embedding[1] = None
    /\ IsStr(resumes[1].text)
    /\ order[Len(order)] = 1
    /\ Ranked[Len(Ranked)].similarity_score = Zero
    /\ RLt(Zero, Ranked[1].similarity_score)


\* ------------------------------------------------------------------------
\* Properties of the screening loop (SpecScreening)
\* ------------------------------------------------------------------------

\* the documents of the run that have got their outcome: an entry in
\* results, a warning, or the error message of the loop's except clause
Accounted ==
    Len(results)
    + Cardinality({k \in 1..Len(messages) :
                      \/ messages[k].kind = "warning"
                      \/ messages[k].text = "Error processing"})

LoopComplete ==
    /\ pc = "complete"
    /\ file_index = Len(uploaded_files) + 1
    /\ Accounted = Len(uploaded_files)

\* C10: in the screening loop a failure while saving, parsing, extracting or
\* scoring one document never aborts the loop: no exception leaves the loop,
\* and a run that has entered the loop goes on through every later document
\* and reaches its "processing complete" state, whatever fails on the way.
C10_LoopNeverAborted ==
    /\ [](pc # "aborted")
    /\ (pc = "processing") ~> LoopComplete

\* a complete run of at least two documents in which the first one failed
\* with an exception and a later one was parsed and reported as without text
C10_Witness ==
    /\ LoopComplete
    /\ Len(uploaded_files) >= 2
    /\ messages # <<>>
    /\ messages[Len(messages)].text = "Error processing"
    /\ \E k \in 1..Len(messages) :
           /\ messages[k].text = "Error processing"
           /\ messages[k].filename = uploaded_files[1].name
    /\ \E k \in 1..Len(messages), j \in 2..Len(uploaded_files) :
           /\ messages[k].text = "Could not extract text"
           /\ messages[k].filename = uploaded_files[j].name
           /\ uploaded_files[j].name # uploaded_files[1].name

\* ------------------------------------------------------------------------
\* Properties of parse_resume (SpecParser, SpecScreening)
\* ------------------------------------------------------------------------

ParseCalled == op = "parse_resume"
\* the file the parser was called on
ParsedFile == (CHOOSE f \in temp_files : TRUE).content
Unsupported(d) == lower(splitext(d.name)) \notin {".pdf", ".docx"}
Malformed(d) == ~Unsupported(d) /\ ~d.valid

\* C11 as stated: text extraction of a document that is neither pdf nor docx
\* fails with an UnsupportedFormatError and that of a malformed pdf/docx with
\* a ParseError, two outcomes the caller can tell apart.
C11_FailuresAreDistinctErrors ==
    ParseCalled =>
        /\ Unsupported(ParsedFile) \/ Malformed(ParsedFile) => result.raised
        /\ \A d \in Documents :
               Unsupported(ParsedFile) /\ Malformed(d)
                   => result # parse_content(join_temp(d.name), d)

\* C11 as amended: parse_resume raises nothing; for a document that is
\* neither pdf nor docx and for a malformed pdf/docx alike its except branch
\* returns None, and it returns a string only for a well-formed pdf/docx, so
\* the caller can tell a failure from a successful extraction (but not the
\* two failures from each other).
C11_FailuresGiveNone ==
    ParseCalled =>
        /\ ~result.raised
        /\ Unsupported(ParsedFile) \/ Malformed(ParsedFile)
               => result.caught /\ result.value = None
        /\ result.value # None
               => ~result.caught /\ ~Unsupported(ParsedFile) /\ ParsedFile.valid

\* a file of an unsupported extension was parsed and None came back
C11_Witness ==
    /\ ParseCalled
    /\ Unsupported(ParsedFile)
    /\ ParsedFile.name = "e.txt"
    /\ result = Caught(None)

\* C12: for a well-formed PDF parse_resume returns the texts of the pages
\* concatenated in page order, nothing inserted, leading and trailing
\* whitespace trimmed.
C12_PdfPagesConcatenated ==
    ParseCalled /\ lower(splitext(ParsedFile.name)) = ".pdf" /\ ParsedFile.valid
        => result.value = Str(strip(Concat(ParsedFile.pages)))

\* every text of document d is blank
NoText(d) ==
    /\ \A k \in 1..Len(d.pages) : strip(d.pages[k]) = ""
    /\ \A k \in 1..Len(d.paragraphs) : strip(d.paragraphs[k]) = ""
    /\ \A t \in 1..Len(d.tables) : \A r \in 1..Len(d.tables[t]) :
           \A c \in 1..Len(d.tables[t][r]) : strip(d.tables[t][r][c]) = ""

\* the run showed one message per document, none from a failed save
OneMessageEach ==
    /\ pc = "complete"
    /\ results = <<>>
    /\ Len(messages) = Len(uploaded_files)
    /\ \A k \in 1..Len(messages) : messages[k].text # "Error saving file"

\* C13: text extraction of a well-formed document without text raises
\* nothing and yields the empty string, which the caller reports as a warning
\* that differs from what it reports for a document that failed to parse.
C13_EmptyTextIsDistinctWarning ==
    OneMessageEach =>
        \A i, j \in 1..Len(uploaded_files) :
            /\ uploaded_files[i].valid /\ NoText(uploaded_files[i])
            /\ Malformed(uploaded_files[j])
            => /\ messages[i].kind = "warning"
               /\ <<messages[i].kind, messages[i].text>>
                      # <<messages[j].kind, messages[j].text>>

\* ------------------------------------------------------------------------
\* The field extractor
\* ------------------------------------------------------------------------

ListFunctions ==
    {"_extract_skills", "_extract_education", "_extract_experience"}

\* the calls of fn made so far
CallsOf(fn) ==
    {i \in 1..Len(extractor_calls) : extractor_calls[i].fn = fn}

\* two outcomes of fn are the same facts: lists are compared as sets
SameFacts(fn, a, b) ==
    /\ a.raised = b.raised
    /\ ~a.raised =>
          IF fn = "extract_information"
          THEN /\ Range(a.value.skills) = Range(b.value.skills)
               /\ Range(a.value.education) = Range(b.value.education)
               /\ Range(a.value.experience) = Range(b.value.experience)
               /\ a.value.contact = b.value.contact
               /\ a.value.years_of_experience = b.value.years_of_experience
          ELSE IF fn \in ListFunctions
          THEN Range(a.value) = Range(b.value)
          ELSE a.value = b.value

\* C14: extraction is idempotent and deterministic: two calls on the identical
\* text yield the same facts, the lists compared as sets; when more candidates
\* are found than the cap allows, both calls keep the same subset.
C14_SameTextSameFacts ==
    \A fn \in ExtractorFunctions : \A i, j \in CallsOf(fn) :
        SameFacts(fn, extractor_calls[i].outcome, extractor_calls[j].outcome)

\* a list holds at most cap entries, none of them twice
Capped(list, cap) ==
    /\ Len(list) <= cap
    /\ \A a, b \in 1..Len(list) : list[a] = list[b] => a = b

\* C15: for every input text the extracted facts contain at most 20 skills,
\* at most 10 education entries and at most 15 experience entries, and none
\* of the three lists contains an element twice.
C15_ListsCappedAndDistinct ==
    \A i \in 1..Len(extractor_calls) :
        LET call == extractor_calls[i]
            v == call.outcome.value
        IN ~call.outcome.raised =>
              /\ call.fn = "_extract_skills" => Capped(v, 20)
              /\ call.fn = "_extract_education" => Capped(v, 10)
              /\ call.fn = "_extract_experience" => Capped(v, 15)
              /\ call.fn = "extract_information" =>
                     /\ Capped(v.skills, 20)
                     /\ Capped(v.education, 10)
                     /\ Capped(v.experience, 15)

\* two interpreters have each cut the skills of one text down to 20, and not
\* to the same 20: the text has more than 20 skills
C15_Witness ==
    \E i, j \in CallsOf("_extract_skills") :
        /\ Len(extractor_calls[i].outcome.value) = 20
        /\ Len(extractor_calls[j].outcome.value) = 20
        /\ Range(extractor_calls[i].outcome.value)
               # Range(extractor_calls[j].outcome.value)

\* the number the k-th pattern captures in text, None when it has no match
Captured(k, text) == first_capture(exp_patterns[k], text)

\* C16: _extract_years_of_experience tries its four patterns in their listed
\* order and returns the integer captured by the first pattern that matches
\* anywhere in the text ("5 years of experience" gives 5), and None when no
\* pattern matches.
C16_FirstPatternInOrderWins ==
    \A i \in CallsOf("_extract_years_of_experience") :
        LET text == lower(Val(resume_text))
            years == extractor_calls[i].outcome.value
        IN /\ ~extractor_calls[i].outcome.raised
           /\ (\A k \in 1..4 : Captured(k, text) = None) => years = None
           /\ \A k \in 1..4 :
                  /\ Captured(k, text) # None
                  /\ \A before \in 1..(k - 1) : Captured(before, text) = None
                  => years = <<int(Val(Captured(k, text)))>>
           /\ Contains("5 years of experience", text) => years = <<5>>

\* the fourth pattern matches early in the text ("exp of 3 yrs"), the first
\* one later ("5 years of experience"), and the call returned 5
C16_Witness ==
    \E i \in CallsOf("_extract_years_of_experience") :
        LET text == lower(Val(resume_text))
        IN /\ Captured(4, text) = Str("3")
           /\ Captured(1, text) = Str("5")
           /\ extractor_calls[i].outcome.value = <<5>>

\* ------------------------------------------------------------------------
\* Analysis of a job description, explanation of a match (SpecExplain)
\* ------------------------------------------------------------------------

\* the skills of the catalogue and of the patterns that a text names
SkillsOf(text) == _extract_skills_from_text(lower(Val(text)))

ExampleJob == "Senior Developer with 3+ years experience in Python and React."

\* C17: analyze_job_description sets required_experience_years to the number
\* N of the first occurrence of "<N>[+] years [of] experience" in the job
\* description and to None when there is none, and its skills contain every
\* skill of the catalogue that the description names; the description
\* "... 3+ years experience in Python and React." gives 3, python and react.
C17_YearsAndSkillsOfJob ==
    (op = "analyze_job_description" /\ ~result.raised) =>
        LET text == Val(job_description)
            first == first_capture(job_exp_pattern, lower(text))
            analysis == result.value
        IN /\ first = None => analysis.required_experience_years = None
           /\ first # None =>
                  analysis.required_experience_years = <<int(Val(first))>>
           /\ \A k \in 1..Len(skill_keywords) :
                  Contains(skill_keywords[k], lower(text))
                  => skill_keywords[k] \in Range(analysis.skills)
           /\ text = ExampleJob =>
                  /\ analysis.required_experience_years = <<3>>
                  /\ {"python", "react"} \subseteq Range(analysis.skills)
           /\ Contains("1 Year of Experience in Java, or 10+ years", text)
                  => analysis.required_experience_years = <<1>>

\* the example description has been analysed
C17_Witness ==
    /\ op = "analyze_job_description"
    /\ job_description = Str(ExampleJob)
    /\ result.value.required_experience_years = <<3>>
    /\ {"python", "react"} \subseteq Range(result.value.skills)

\* C18: in the explanation of a match, matching_skills is the intersection
\* of the job's and the resume's skills, missing_skills the job's skills the
\* resume lacks, skill_match_percentage |matching| / |job skills| (0 without
\* job skills), and overall_score the weighted_score of detailed_scores;
\* matching and missing skills are disjoint and make up the job's skills.
C18_ExplanationOfSkills ==
    (op = "get_matching_explanation" /\ ~result.raised) =>
        LET job_skills == SkillsOf(job_description)
            resume_skills == SkillsOf(resume_text)
            explanation == result.value
            matching == Range(explanation.matching_skills)
            missing == Range(explanation.missing_skills)
        IN /\ matching = job_skills \cap resume_skills
           /\ missing = job_skills \ resume_skills
           /\ Len(explanation.matching_skills) = Cardinality(matching)
           /\ Len(explanation.missing_skills) = Cardinality(missing)
           /\ explanation.skill_match_percentage =
                  IF job_skills = {} THEN Zero
                  ELSE Rat(Cardinality(matching), Cardinality(job_skills))
           /\ explanation.overall_score
                  = explanation.detailed_scores.weighted_score
           /\ matching \cap missing = {}
           /\ matching \cup missing = job_skills

\* an explanation with matching and with missing skills, for a resume that
\* names a skill the job does not
C18_Witness ==
    /\ op = "get_matching_explanation"
    /\ ~result.raised
    /\ result.value.matching_skills # <<>>
    /\ result.value.missing_skills # <<>>
    /\ SkillsOf(resume_text) \ SkillsOf(job_description) # {}

\* C20: swapping the job description and the resume preserves the sizes of
\* the intersection and of the union of their skill sets; skills_similarity
\* is the same both ways when both sets are non-empty, and can differ only
\* when exactly one of the sets is empty.
C20_SkillsSimilaritySwapped ==
    [][op' = "_calculate_skills_similarity, swapped" =>
          LET job_skills == SkillsOf(job_description)
              resume_skills == SkillsOf(resume_text)
              swapped_job == SkillsOf(job_description')
              swapped_resume == SkillsOf(resume_text')
          IN /\ swapped_job = resume_skills /\ swapped_resume = job_skills
             /\ Cardinality(swapped_job \cap swapped_resume)
                    = Cardinality(job_skills \cap resume_skills)
             /\ Cardinality(swapped_job \cup swapped_resume)
                    = Cardinality(job_skills \cup resume_skills)
             /\ (job_skills # {} /\ resume_skills # {})
                    => result'.value = result.value
             /\ result'.value # result.value
                    => (job_skills = {}) # (resume_skills = {})]_vars

\* both ways computed for two texts with different, overlapping skill sets
C20_Witness ==
    /\ op = "_calculate_skills_similarity, swapped"
    /\ SkillsOf(job_description) # SkillsOf(resume_text)
    /\ Cardinality(SkillsOf(job_description)) # Cardinality(SkillsOf(resume_text))
    /\ SkillsOf(job_description) \cap SkillsOf(resume_text) # {}
    /\ RLt(Zero, result.value) /\ RLt(result.value, One)

\* ------------------------------------------------------------------------
\* Simultaneous runs (SpecConcurrent)
\* ------------------------------------------------------------------------

\* what parse_resume returns for a document processed alone
SequentialText(file) ==
    parse_resume({[path |-> join_temp(file.name), content |-> file]},
                 join_temp(file.name))

\* C19: processing documents concurrently gives every document the text it
\* gets when processed alone: whatever the interleaving of the saves and
\* parses of two runs, no parse reads bytes that were written for another
\* document, also when both uploads have the same file name.
C19_ParseReadsOwnDocument ==
    \A r \in DOMAIN runs :
        runs[r].pc = "parsed" =>
            /\ runs[r].read = Str(runs[r].file.paragraphs)
            /\ runs[r].resume_text = SequentialText(runs[r].file)

\* the candidates of _extract_skills in the text, trimmed: the matches of the
\* skill patterns and, with the pipeline, the ORG and PRODUCT entities
SkillCandidates(proc, text) ==
    {strip(x) : x \in
        AllMatches([n \in 1..Len(parser_skill_patterns) |->
                       Bounded(parser_skill_patterns[n])], text)
        \cup IF proc.nlp
             THEN {lower(e.text) : e \in {x \in ents(text) :
                                            x.label \in {"ORG", "PRODUCT"}}}
             ELSE {}}

\* C21: a skill candidate (pattern match or named entity, trimmed) is kept if
\* and only if it is alphabetic or contains one of '.', '+', '#', whatever
\* its length, a single character included (the cap of 20 aside).
C21_KeptIffAlphabeticOrMarked ==
    \A i \in CallsOf("_extract_skills") :
        LET text == lower(Val(resume_text))
            kept == Range(extractor_calls[i].outcome.value)
            passing == {c \in SkillCandidates(process, text) :
                           \/ isalpha(c)
                           \/ Contains(".", c)
                           \/ Contains("+", c)
                           \/ Contains("#", c)}
        IN /\ kept \subseteq passing
           /\ Cardinality(passing) <= 20 => kept = passing

\* the sentences of text.split('.') that contain an experience keyword and
\* have at least n characters when trimmed
KeywordSentences(text, n) ==
    {strip(y) : y \in
        {x \in Range(split(text, ".")) :
            /\ \E k \in 1..Len(parser_experience_keywords) :
                   Contains(parser_experience_keywords[k], x)
            /\ Len(strip(x)) >= n}}

\* the experience list is made of the job titles and of the keyword
\* sentences of at least n characters (exactly of them under the cap of 15)
ExperienceCollected(n) ==
    \A i \in CallsOf("_extract_experience") :
        LET text == lower(Val(resume_text))
            kept == Range(extractor_calls[i].outcome.value)
            expected == KeywordSentences(text, n)
                            \cup AllMatches(job_patterns, text)
        IN /\ kept \subseteq expected
           /\ Cardinality(expected) <= 15 => kept = expected

\* C22 (as stated): a '.'-delimited sentence that contains an experience
\* keyword is collected exactly when its trimmed length is at least 10.
C22_SentencesOfAtLeast10 == ExperienceCollected(10)

\* C22 (amended): a '.'-delimited sentence that contains an experience keyword
\* is collected exactly when its trimmed length is more than 10 characters,
\* that is at least 11; a sentence of exactly 10 characters is filtered out.
C22_SentencesLongerThan10 == ExperienceCollected(11)

\* a keyword sentence of exactly 10 characters was left out, one of more
\* than 10 characters was collected
C22_Witness ==
    \E i \in CallsOf("_extract_experience") :
        LET text == lower(Val(resume_text))
            kept == Range(extractor_calls[i].outcome.value)
        IN /\ \E x \in KeywordSentences(text, 10) : Len(x) = 10 /\ x \notin kept
           /\ \E x \in KeywordSentences(text, 11) : x \in kept

\* which of the four suggestions a recommendation is
RecommendationKind(text) ==
    IF OccursAt("Consider highlighting these skills: ", text, 1)
    THEN "skills"
    ELSE IF text = "Emphasize relevant work experience and achievements"
    THEN "experience"
    ELSE IF text = "Highlight relevant educational background and certifications"
    THEN "education"
    ELSE IF text = "Consider tailoring the resume to better match the job requirements"
    THEN "tailor"
    ELSE "other"

\* C23: the recommendations of a match contain the "highlight these skills"
\* suggestion exactly when missing_skills is non-empty, "emphasize
\* experience" exactly when experience_similarity < 0.5, "highlight
\* education" exactly when education_similarity < 0.5 and "tailor the resume"
\* exactly when overall_similarity < 0.6, in that order, and nothing else.
C23_RecommendationsByThreshold ==
    (op = "get_matching_explanation" /\ ~result.raised) =>
        LET explanation == result.value
            scores == explanation.detailed_scores
            recs == explanation.recommendations
            suggested ==
                [skills |-> SkillsOf(job_description) \ SkillsOf(resume_text) # {},
                 experience |-> RLt(scores.experience_similarity, Rat(1, 2)),
                 education |-> RLt(scores.education_similarity, Rat(1, 2)),
                 tailor |-> RLt(scores.overall_similarity, Rat(6, 10))]
            When(kind) == IF suggested[kind] THEN <<kind>> ELSE <<>>
        IN [k \in 1..Len(recs) |-> RecommendationKind(recs[k])]
               = When("skills") \o When("experience")
                     \o When("education") \o When("tailor")

\* an explanation with some of the suggestions and without others, the
\* education similarity being exactly 0.5 and the overall one at least 0.6
C23_Witness ==
    /\ op = "get_matching_explanation"
    /\ ~result.raised
    /\ result.value.missing_skills # <<>>
    /\ result.value.detailed_scores.education_similarity = Half
    /\ RLe(Rat(6, 10), result.value.detailed_scores.overall_similarity)
    /\ Len(result.value.recommendations) \in {1, 2}

\* C24: for every input text the output of preprocess_text is lower-case,
\* contains only word characters, whitespace and '.', '+', '#', '-', contains
\* no run of two or more whitespace characters, and neither starts nor ends
\* with whitespace.
C24_PreprocessedIsNormalised ==
    (op = "preprocess_text" /\ ~result.raised) =>
        LET out == result.value
        IN /\ out = lower(out)
           /\ \A k \in 1..Len(out) :
                  \/ IsWordChar(CharAt(out, k))
                  \/ CharAt(out, k) \in Whitespace \cup {".", "+", "#", "-"}
           /\ \A k \in 1..(Len(out) - 1) :
                  ~(CharAt(out, k) \in Whitespace
                    /\ CharAt(out, k + 1) \in Whitespace)
           /\ out = strip(out)

\* ------------------------------------------------------------------------
\* rank_resumes and its inputs (SpecRank)
\* ------------------------------------------------------------------------

\* C25: rank_resumes does not mutate its inputs: after the call the caller's
\* candidate list has the same length, the same order and the same filename
\* and text values as before, the ranking being another list.
C25_InputsNotMutated ==
    [][op' = "rank_resumes" =>
          /\ Len(resumes') = Len(resumes)
          /\ \A k \in 1..Len(resumes) :
                 /\ resumes'[k].filename = resumes[k].filename
                 /\ resumes'[k].text = resumes[k].text
          /\ job_description' = job_description]_vars

\* the filename and the text of the entries of a list, in their order
Candidates(list) ==
    [k \in 1..Len(list) |-> [filename |-> list[k].filename, text |-> list[k].text]]

\* a ranking was returned whose order is not the order of the input
C25_Witness ==
    /\ op = "rank_resumes"
    /\ ~result.raised
    /\ Len(resumes) = MaxBatch
    /\ Candidates(result.value) # Candidates(resumes)

\* how often the candidate c occurs in a list
Occurrences(c, list) ==
    Cardinality({k \in 1..Len(list) : Candidates(list)[k] = c})

\* C26: the list returned by rank_resumes is a permutation of the input
\* batch: one entry per input candidate, duplicates included, each with that
\* candidate's filename and text, and no entry that was not in the input.
C26_RankingIsPermutation ==
    (op = "rank_resumes" /\ ~result.raised) =>
        /\ Len(result.value) = Len(resumes)
        /\ \A c \in Range(Candidates(resumes)) \cup Range(Candidates(result.value)) :
               Occurrences(c, result.value) = Occurrences(c, resumes)

\* a batch that holds one candidate twice and another one once was ranked,
\* and the other one came first
C26_Witness ==
    /\ op = "rank_resumes"
    /\ ~result.raised
    /\ \E c \in Range(Candidates(resumes)) : Occurrences(c, resumes) = 2
    /\ \E c \in Range(Candidates(resumes)) :
           /\ Occurrences(c, resumes) = 1
           /\ Candidates(resumes)[1] # c
           /\ Candidates(result.value)[1] = c

\* ------------------------------------------------------------------------
\* A failure of the embedding call inside calculate_weighted_similarity
\* (SpecMatcher)
\* ------------------------------------------------------------------------

\* C27: when the embedding call fails inside calculate_weighted_similarity and
\* nothing else does, only the overall component is degraded:
\* overall_similarity is 0.0, the skills, experience and education
\* similarities keep their keyword-overlap values, and weighted_score is
\* 0.3*skills + 0.2*experience + 0.1*education, not forced to 0.0.
C27_OnlyOverallDegraded ==
    (WeightedCalled /\ embedding = None
        /\ IsStr(job_description) /\ IsStr(resume_text)) =>
        LET scores == result.value
            job_exp == KeywordsIn(Val(job_description), experience_keywords)
            resume_exp == KeywordsIn(Val(resume_text), experience_keywords)
            job_edu == KeywordsIn(Val(job_description), education_keywords)
            resume_edu == KeywordsIn(Val(resume_text), education_keywords)
        IN /\ ~result.raised /\ ~result.caught
           /\ scores.overall_similarity = Zero
           /\ scores.skills_similarity =
                  IF JobSkills = {} THEN Zero
                  ELSE Rat(Cardinality(JobSkills \cap ResumeSkills),
                           Cardinality(JobSkills \cup ResumeSkills))
           /\ scores.experience_similarity =
                  IF job_exp = {} THEN Zero
                  ELSE Rat(Cardinality(job_exp \cap resume_exp),
                           Cardinality(job_exp))
           /\ scores.education_similarity =
                  IF job_edu = {} THEN Half
                  ELSE Rat(Cardinality(job_edu \cap resume_edu),
                           Cardinality(job_edu))
           /\ scores.weighted_score =
                  RAdd(RMul(Rat(3, 10), scores.skills_similarity),
                       RAdd(RMul(Rat(2, 10), scores.experience_similarity),
                            RMul(Rat(1, 10), scores.education_similarity)))

\* the embedding call failed for two texts that share a skill and an
\* experience keyword: the weighted score is positive
C27_Witness ==
    /\ WeightedCalled
    /\ embedding = None
    /\ IsStr(job_description) /\ IsStr(resume_text)
    /\ result.value.overall_similarity = Zero
    /\ RLt(Zero, result.value.skills_similarity)
    /\ RLt(Zero, result.value.experience_similarity)
    /\ RLt(Rat(1, 10), result.value.weighted_score)

\* ------------------------------------------------------------------------
\* The outcomes of the documents of a screening run (SpecScreening)
\* ------------------------------------------------------------------------

\* the outcomes the document named `name` has produced so far: entries of
\* results, "could not extract text" warnings, and error messages of the
\* loop's except clause
OutcomesOf(name) ==
    Cardinality({k \in 1..Len(results) : results[k].filename = name})
    + Cardinality({k \in 1..Len(messages) :
                      /\ messages[k].filename = name
                      /\ messages[k].kind = "warning"
                      /\ messages[k].text = "Could not extract text"})
    + Cardinality({k \in 1..Len(messages) :
                      /\ messages[k].filename = name
                      /\ messages[k].kind = "error"
                      /\ messages[k].text = "Error processing"})

\* C28: every document of a screening run produces exactly one of three
\* outcomes, a result entry, a "could not extract text" warning or a
\* per-document error message: at the end of a run over N documents the
\* entries, warnings and errors are N together, and results holds at most one
\* entry per uploaded document.
C28_OneOutcomePerDocument ==
    pc \in {"processing", "complete"} =>
        /\ \A i \in 1..Len(uploaded_files) :
               OutcomesOf(uploaded_files[i].name) =
                   Cardinality({k \in 1..(file_index - 1) :
                                   uploaded_files[k].name = uploaded_files[i].name})
        /\ Accounted = file_index - 1
        /\ Len(results) <= file_index - 1
        /\ pc = "complete" => Accounted = Len(uploaded_files)

\* a complete run of three documents with a warning for one of them and an
\* error for another, one of the errors having followed a failed save
C28_Witness ==
    /\ pc = "complete"
    /\ Len(uploaded_files) = MaxFiles
    /\ \E k \in 1..Len(messages) : messages[k].text = "Could not extract text"
    /\ \E k \in 1..Len(messages) : messages[k].text = "Error saving file"
    /\ Len(messages) > Len(uploaded_files)
    /\ Accounted = Len(uploaded_files)

\* ------------------------------------------------------------------------
\* Login, registration, logout and the table users (SpecAuth)
\* ------------------------------------------------------------------------

\* the record the session keeps of the row of a user
SessionUser(row) ==
    <<[id |-> row.id, username |-> row.username, email |-> row.email,
       role |-> row.role]>>

\* C29: over any sequence of login, register and logout actions the main
\* application is shown only while logged_in is true; logged_in becomes true
\* only by a login whose username and password are both non-empty and pass
\* verify_password, the session user then being that user's record; a failed
\* login and any registration leave logged_in unchanged; logout sets
\* logged_in to false and the session user to None.
C29_LoginGuardsMainApp ==
    [][/\ page' = "main_app" => logged_in'
       /\ (logged_in' /\ ~logged_in) =>
              /\ op' = "login"
              /\ args'.username # "" /\ args'.password # ""
              /\ \E k \in 1..Len(users) :
                     /\ users[k].username = args'.username
                     /\ checkpw(args'.password, users[k].password_hash)
                     /\ user' = SessionUser(users[k])
       /\ (op' = "login"
             /\ ~\E k \in 1..Len(users) :
                     /\ users[k].username = args'.username
                     /\ checkpw(args'.password, users[k].password_hash))
              => logged_in' = logged_in /\ user' = user
       /\ op' = "register" => logged_in' = logged_in /\ user' = user
       /\ op' = "logout" => ~logged_in' /\ user' = None]_vars

\* ann has registered, logged in, logged out and logged in again, after a
\* login with a wrong password had failed: the main application is shown
C29_Witness ==
    /\ op = "login"
    /\ logged_in
    /\ page = "main_app"
    /\ user # None
    /\ Val(user).username = "ann"
    /\ Val(user).role = "user"
    /\ \E k \in 1..Len(users) :
           /\ users[k].username = "ann"
           /\ checkpw("secret1", users[k].password_hash)
           /\ ~checkpw("admin123", users[k].password_hash)
           /\ args.password = "secret1"

\* the rows of a table with the username name
Named(name, table) == {k \in 1..Len(table) : table[k].username = name}

====
